---- MODULE Spec2Model ----
(***************************************************************************)
(* Model of the mirador streaming core: StreamingExecutor (start / stop /  *)
(* per-message handler), the stream-source threads that drive it, and the  *)
(* publish / unpublish / restore lifecycle around the PublishRegistry.     *)
(***************************************************************************)
EXTENDS Integers, Sequences, FiniteSets, TLC

\* ------------------------------------------------------------------ bounds
\* messages every source emits per subscription (the length of config "messages")
MaxMsgs == 2
\* calls of start() the controller makes
MaxStarts == 2
\* calls of stop() the controller makes
MaxStops == 2
\* exceptions raised by nodes, callbacks and sources in one behaviour
MaxFaults == 1
\* publish / unpublish requests served in one behaviour
MaxReqs == 3
\* publish / unpublish requests served at the same time (worker threads)
MaxWorkers == 2
\* dashboard sockets opened in one behaviour
MaxConns == 1
\* messages the sources of the published pipelines deliver in one behaviour
MaxTicks == 2
\* direct calls of the publish registry in one behaviour
MaxRegCalls == 4
\* env objects, and executor objects, handed to register
MaxEnvs == 2
\* calls of a TableEnv made by each of its concurrent callers in one behaviour
MaxEnvCalls == 2
\* dashboard sockets opened in one behaviour of the dashboard protocol
MaxSockets == 2
\* subscribe and fetch messages received in one behaviour, all sockets together
MaxWsMsgs == 4
\* notify_data_changed calls whose sends are still scheduled on the event loop
MaxPending == 1
\* rows of the tables, pages and page sizes _query_table is called with
MaxRows == 3
MaxPage == 3
MaxPageSize == 4
\* calls of the cron library that raise in one behaviour
MaxLibFaults == 1
\* scheduled runs in one behaviour, all keys together
MaxRuns == 52
\* entries with status "error" the run histories hold at a time
MaxErrorEntries == 1

\* nodes of the pipeline of a run-stream request
MaxRunNodes == 3

\* ------------------------------------------------------------ dict helpers
\* dict.update(b) on a: keys of b overwrite keys of a
Update(a, b) == b @@ a

EmptyDict == [k \in {} |-> 0]

\* inputs.get("tick") of a dict without that key
NoneVal == -1

DictGet(d, k) == IF k \in DOMAIN d THEN d[k] ELSE NoneVal

\* ---------------------------------------------------------------- pipeline
\* The pipeline handed to start(): two chained init nodes, two sources, and
\* a processing chain acc1 -> acc2 fed by src1 (at acc1) and src2 (at acc2).
Pipeline ==
    [nodes |-> << [id |-> "init1", type |-> "setup_node", config |-> <<>>],
                  [id |-> "init2", type |-> "setup_node", config |-> <<>>],
                  [id |-> "src1", type |-> "mock_stream",
                   config |-> [i \in 1..MaxMsgs |-> ("tick" :> (i - 1))]],
                  [id |-> "src2", type |-> "mock_stream",
                   config |-> [i \in 1..MaxMsgs |-> ("tick" :> (MaxMsgs + i - 1))]],
                  [id |-> "acc1", type |-> "accumulator", config |-> <<>>],
                  [id |-> "acc2", type |-> "accumulator", config |-> <<>>] >>,
     edges |-> << [source |-> "init1", target |-> "init2"],
                  [source |-> "src1", target |-> "acc1"],
                  [source |-> "acc1", target |-> "acc2"],
                  [source |-> "src2", target |-> "acc2"] >>]

\* node_cls.meta.category of the node classes the registry holds
Category(type) ==
    CASE type = "setup_node" -> "init"
      [] type = "mock_stream" -> "stream_source"
      [] OTHER -> "generic"

NodeIds(p) == {p.nodes[i].id : i \in 1..Len(p.nodes)}

NodeType(p, n) == p.nodes[CHOOSE i \in 1..Len(p.nodes) : p.nodes[i].id = n].type

\* node_def.get("config", {}); for a mock_stream node its "messages" list
NodeConfig(p, n) == p.nodes[CHOOSE i \in 1..Len(p.nodes) : p.nodes[i].id = n].config

\* no node taken for an init node
InitIdsNone(p) == {}

\* start(): partition of the nodes by category
InitIdsOf(p) == {n \in NodeIds(p) : Category(NodeType(p, n)) = "init"}

SourceIdsOf(p) == {n \in NodeIds(p) : Category(NodeType(p, n)) = "stream_source"}

ProcessingIdsOf(p) ==
    {n \in NodeIds(p) : Category(NodeType(p, n)) \notin {"init", "stream_source"}}

AllSources == SourceIdsOf(Pipeline)

\* ------------------------------------------------------------- _topo_sort
SubsetEdges(ids, edges) ==
    SelectSeq(edges, LAMBDA e : e.source \in ids /\ e.target \in ids)

RECURSIVE SourcesInto(_, _)
\* upstream[t]: the sources of the edges into t, in edge order
SourcesInto(es, t) ==
    IF es = <<>> THEN <<>>
    ELSE IF Head(es).target = t
         THEN <<Head(es).source>> \o SourcesInto(Tail(es), t)
         ELSE SourcesInto(Tail(es), t)

RECURSIVE TargetsFrom(_, _)
\* downstream[s]: the targets of the edges out of s, in edge order
TargetsFrom(es, s) ==
    IF es = <<>> THEN <<>>
    ELSE IF Head(es).source = s
         THEN <<Head(es).target>> \o TargetsFrom(Tail(es), s)
         ELSE TargetsFrom(Tail(es), s)

UpstreamMap(ids, edges) ==
    [n \in ids |-> SourcesInto(SubsetEdges(ids, edges), n)]

DownstreamMap(ids, edges) ==
    [n \in ids |-> TargetsFrom(SubsetEdges(ids, edges), n)]

\* in_degree left at zero for every node
InDegreeZero(ids, edges) == [n \in ids |-> 0]

InDegree(ids, edges) == [n \in ids |-> Len(UpstreamMap(ids, edges)[n])]

RECURSIVE Relax(_, _, _)
\* the inner loop of Kahn's algorithm over downstream[n_id]
Relax(ts, queue, indeg) ==
    IF ts = <<>> THEN [queue |-> queue, indeg |-> indeg]
    ELSE LET t == Head(ts)
             d == indeg[t] - 1
         IN Relax(Tail(ts),
                  IF d = 0 THEN Append(queue, t) ELSE queue,
                  [indeg EXCEPT ![t] = d])

RECURSIVE Kahn(_, _, _, _)
Kahn(queue, order, indeg, down) ==
    IF queue = <<>> THEN order
    ELSE LET n == Head(queue)
             r == Relax(down[n], Tail(queue), indeg)
         IN Kahn(r.queue, Append(order, n), r.indeg, down)

\* the orders in which a Python set of ids can be iterated
Perms(S) ==
    {f \in [1..Cardinality(S) -> S] : \A i, j \in 1..Cardinality(S) : i # j => f[i] # f[j]}

\* the (order, upstream) results _topo_sort can return; an order shorter
\* than the id set is the case in which it raises ValueError (cycle)
TopoSort(ids, edges) ==
    LET indeg == InDegree(ids, edges)
        zero == {n \in ids : indeg[n] = 0}
    IN {[order |-> Kahn(q, <<>>, indeg, DownstreamMap(ids, edges)),
         upstream |-> UpstreamMap(ids, edges)] : q \in Perms(zero)}

\* ------------------------------------------------- start(): chain tables
\* source_to_processing[s]: direct edges from a source to processing nodes
SourceToProcessing(p) ==
    [s \in SourceIdsOf(p) |->
        TargetsFrom(SelectSeq(p.edges, LAMBDA e : e.target \in ProcessingIdsOf(p)), s)]

RECURSIVE Bfs(_, _, _)
\* the BFS of start() over processing_downstream
Bfs(queue, reachable, down) ==
    IF queue = <<>> THEN reachable
    ELSE LET n == Head(queue)
         IN IF n \in reachable
            THEN Bfs(Tail(queue), reachable, down)
            ELSE Bfs(Tail(queue) \o down[n], reachable \cup {n}, down)

SourceReachable(p) ==
    [s \in SourceIdsOf(p) |->
        Bfs(SourceToProcessing(p)[s], {},
            DownstreamMap(ProcessingIdsOf(p), p.edges))]

\* --------------------------------------------------------- node classes
\* TableEnv.set
EnvSet(env, name, v) == (name :> v) @@ env

\* SetupNode.execute: env.set("ticks", []); returns {"initialized": True}
SetupNodeExecute(inputs, env) ==
    [env |-> EnvSet(env, "ticks", <<>>), output |-> ("initialized" :> 1)]

\* AccumulatorNode.execute: appends inputs.get("tick") to env["ticks"]
AccumulatorExecute(inputs, env) ==
    LET ticks == IF "ticks" \in DOMAIN env THEN env["ticks"] ELSE <<>>
    IN [env |-> EnvSet(env, "ticks", Append(ticks, DictGet(inputs, "tick"))),
        output |-> ("accumulated" :> 1)]

NodeExecute(type, inputs, env) ==
    IF type = "setup_node" THEN SetupNodeExecute(inputs, env)
    ELSE AccumulatorExecute(inputs, env)

\* MockStreamSource._emit: the i-th message of source s
Message(s, i) == NodeConfig(Pipeline, s)[i]

RECURSIVE MergeUpstreamFirstWins(_, _)
\* the merge in which a key once set is kept
MergeUpstreamFirstWins(ups, outputs) ==
    IF ups = <<>> THEN EmptyDict
    ELSE LET up == ups[Len(ups)]
             rest == MergeUpstreamFirstWins(SubSeq(ups, 1, Len(ups) - 1), outputs)
         IN Update(IF up \in DOMAIN outputs THEN outputs[up] ELSE EmptyDict, rest)

RECURSIVE MergeUpstream(_, _)
\* inputs.update(outputs.get(up_id, {})) for up_id in the upstream list
MergeUpstream(ups, outputs) ==
    IF ups = <<>> THEN EmptyDict
    ELSE LET up == ups[Len(ups)]
             rest == MergeUpstream(SubSeq(ups, 1, Len(ups) - 1), outputs)
         IN Update(rest, IF up \in DOMAIN outputs THEN outputs[up] ELSE EmptyDict)

SeqToSet(s) == {s[i] : i \in 1..Len(s)}

\* ------------------------------------------------------------------ state
VARIABLES
    running,            \* StreamingExecutor._running
    sources,            \* StreamingExecutor._sources (ids of the subscribed source objects)
    envTables,          \* TableEnv._tables of the env handed to start()
    onTickComplete,     \* StreamingExecutor._on_tick_complete ("none" or a callback)
    chainOrder,         \* StreamingExecutor._chain_order
    chainUpstream,      \* StreamingExecutor._chain_upstream
    sourceToProcessing, \* StreamingExecutor._source_to_processing
    sourceReachable,    \* StreamingExecutor._source_reachable
    nodes,              \* StreamingExecutor._nodes
    lock,               \* StreamingExecutor._lock: "free" or the holding source thread
    srcRunning,         \* MockStreamSource._running of each source object
    thr,                \* each source thread: position in _loop / _on_message
    ctl,                \* the thread that calls start() and stop()
    faults,             \* exceptions raised so far by nodes, callbacks and sources
    execLog,            \* history: node.execute calls of the ticks, in order
    cbCount,            \* history: on_tick_complete calls per tick
    tickState,          \* history: what became of each message handed to the handler
    unsubCount,         \* history: unsubscribe() calls of the latest stop(), per source
    initLog,            \* history: init node.execute calls of the current start()
    initErrorCalls,     \* history: on_init_error calls of the current start()
    store,              \* ProjectStore: per key "absent", or the pipeline's published flag
    pubRegistry,        \* PublishRegistry._running, in insertion order
    executors,          \* the StreamingExecutor objects created by publish and restore
    req,                \* the publish / unpublish requests being served
    boot,               \* lifespan(): the keys still to restore, and whether requests are served
    connections,        \* ws_dashboard._connections
    sent,               \* the events scheduled to each dashboard socket
    nTicks,             \* messages delivered so far to published pipelines
    nReqs,              \* publish / unpublish requests received so far
    nConns,             \* dashboard sockets opened so far
    resp,               \* history: the latest response to a publish / unpublish request
    regHist,            \* history: the latest direct call of the registry and the call counts
    envLock,            \* TableEnv._lock: its holder, or "free"
    envCall,            \* each caller of the TableEnv: its call and its position in it
    envEffects,         \* history: the writes applied to TableEnv._tables, in order
    notifying,          \* the _send_all coroutines scheduled by notify_data_changed
    query,              \* a call of _query_table: its arguments and its result
    scheduler,          \* scheduler._scheduler: "none" or "started"
    jobs,               \* scheduler._jobs: pipeline key -> job id
    cronJobs,           \* the schedules the cron library holds: id -> trigger
    sync,               \* the coroutines that run sync_schedules: call and position
    libFaults,          \* calls of the cron library that have raised so far
    runHistory,         \* scheduler._run_history: pipeline key -> list of entries
    runClock,           \* the clock the runs read: per key, the runs so far
    jobRet,             \* how the latest call of _run_pipeline_job ended
    connLock,           \* ws_dashboard._connections_lock: its holder, or "free"
    lockThr,            \* the threads that take the locks: position and locals
    lockHist,           \* history: counter writes and on_tick_complete calls
    streamRun,          \* run_pipeline_stream: the worker thread and the generator
    eventQueue,         \* run_pipeline_stream: event_queue
    streamOut,          \* the events the generator yielded, in order
    streamLog           \* history: the callbacks of the executor, in call order

chainVars == <<chainOrder, chainUpstream, sourceToProcessing, sourceReachable, nodes>>

tickHist == <<execLog, cbCount, tickState>>

initHist == <<initLog, initErrorCalls>>

execVars ==
    <<running, sources, envTables, onTickComplete, chainVars, lock, srcRunning,
      thr, ctl, faults, tickHist, unsubCount, initHist>>

pubVars ==
    <<store, pubRegistry, executors, req, boot, connections, sent, nTicks, nReqs,
      nConns, resp>>

\* the variables of the direct calls of PublishRegistry
regAux == <<regHist>>

envAux == <<envLock, envCall, envEffects>>

dashAux == <<notifying>>

fnAux == <<query>>

schedAux == <<scheduler, jobs, cronJobs, sync, libFaults>>

jobAux == <<runHistory, runClock, jobRet>>

lockAux == <<connLock, lockThr, lockHist>>

streamAux == <<streamRun, eventQueue, streamOut, streamLog>>

auxVars == <<regAux, envAux, dashAux, fnAux, schedAux, jobAux, lockAux, streamAux>>

\* what the calls of the registry leave alone, and what the callers of the
\* TableEnv leave alone
regRest ==
    <<envAux, dashAux, fnAux, schedAux, jobAux, lockAux, streamAux>>

envRest ==
    <<regAux, dashAux, fnAux, schedAux, jobAux, lockAux, streamAux>>

dashRest ==
    <<regAux, envAux, fnAux, schedAux, jobAux, lockAux, streamAux>>

fnRest ==
    <<regAux, envAux, dashAux, schedAux, jobAux, lockAux, streamAux>>

schedRest ==
    <<regAux, envAux, dashAux, fnAux, jobAux, lockAux, streamAux>>

jobRest ==
    <<regAux, envAux, dashAux, fnAux, schedAux, lockAux, streamAux>>

\* what the threads of the lock discipline leave alone
lockRest ==
    <<sources, chainVars, srcRunning, thr, ctl, tickHist, unsubCount, initHist,
      pubVars, regAux, envCall, envEffects, dashAux, fnAux, schedAux, jobAux,
      streamAux>>

\* what a run-stream request leaves alone
streamRest ==
    <<execVars, pubVars, regAux, envAux, dashAux, fnAux, schedAux, jobAux, lockAux>>

\* the executor but for the tables of its env
execRest ==
    <<running, sources, onTickComplete, chainVars, lock, srcRunning, thr, ctl,
      faults, tickHist, unsubCount, initHist>>

vars == <<execVars, pubVars, auxVars>>

\* a tick of the current start() is identified by its source and its message
TickIds == AllSources \X (1..MaxMsgs)

Tid(s) == <<s, thr[s].msg>>

\* a source thread outside the handler holds no tick-local values; "span"
\* records whether the nodes of the tick in progress ran with the flag set
\* ("running") or some of them ran after stop() had cleared it ("stopped")
ThreadAt(pc, msg) ==
    [pc |-> pc, msg |-> msg, idx |-> 0, outputs |-> EmptyDict, tickOk |-> TRUE,
     span |-> "none"]

\* the span of a tick after one more node ran
SpanAfter(span) ==
    IF running THEN (IF span = "none" THEN "running" ELSE span)
    ELSE (IF span = "running" THEN "stopped" ELSE span)

\* the "pipeline" local of start() outside a call
NoPipeline == [nodes |-> <<>>, edges |-> <<>>]

\* the controller outside start() and stop() holds no call-local values
CtlIdle(starts, stops, last) ==
    [pc |-> "idle", starts |-> starts, stops |-> stops, last |-> last,
     initOrder |-> <<>>, initUpstream |-> EmptyDict, initIdx |-> 0,
     initResults |-> EmptyDict, onInitError |-> "none", pending |-> {},
     stopIdx |-> 0, unsubRaisedAt |-> 0, pipeline |-> NoPipeline]

\* whether the next call may raise: the exceptions of a behaviour are bounded
MayRaise == IF faults < MaxFaults THEN BOOLEAN ELSE {FALSE}

Raised(raises) == faults + (IF raises THEN 1 ELSE 0)

ExecInit ==
    /\ running = FALSE
    /\ sources = <<>>
    /\ envTables = EmptyDict
    /\ onTickComplete = "none"
    /\ chainOrder = <<>>
    /\ chainUpstream = EmptyDict
    /\ sourceToProcessing = EmptyDict
    /\ sourceReachable = EmptyDict
    /\ nodes = <<>>
    /\ lock = "free"
    /\ srcRunning = [s \in AllSources |-> FALSE]
    /\ thr = [s \in AllSources |-> ThreadAt("off", 0)]
    /\ ctl = CtlIdle(0, 0, "none")
    /\ faults = 0
    /\ execLog = <<>>
    /\ cbCount = [t \in TickIds |-> 0]
    /\ tickState = [t \in TickIds |-> "none"]
    /\ unsubCount = [s \in AllSources |-> 0]
    /\ initLog = <<>>
    /\ initErrorCalls = <<>>

\* ---------------------------------------------------------------- start()
\* start() going on whatever the flag says
StartRejectsNever == FALSE

\* "if self._running: raise RuntimeError"
StartRejects == running

\* start() on a running executor: raises RuntimeError before touching anything
StartRejected ==
    /\ ctl.pc = "idle"
    /\ ctl.starts < MaxStarts
    /\ StartRejects
    /\ ctl' = CtlIdle(ctl.starts + 1, ctl.stops, "raised_already_running")
    /\ UNCHANGED <<auxVars, pubVars, running, sources, envTables, onTickComplete, chainVars, lock,
                   srcRunning, thr, faults, tickHist, unsubCount, initHist>>

\* start() up to the topological sort of the init subgraph. The controller
\* restarts an executor only once the source threads of the previous
\* subscription have ended; the histories are those of the current start().
StartEnter(cb, ie, p) ==
    /\ ctl.pc = "idle"
    /\ ctl.starts < MaxStarts
    /\ ~StartRejects
    /\ \A s \in AllSources : thr[s].pc \in {"off", "done"}
    /\ onTickComplete' = cb
    /\ running' = TRUE
    /\ initLog' = <<>>
    /\ initErrorCalls' = <<>>
    /\ execLog' = <<>>
    /\ cbCount' = [t \in TickIds |-> 0]
    /\ tickState' = [t \in TickIds |-> "none"]
    /\ IF InitIdsOf(p) = {}
       THEN ctl' = [CtlIdle(ctl.starts + 1, ctl.stops, "starting")
                      EXCEPT !.pc = "chain", !.pipeline = p]
       ELSE \E ts \in TopoSort(InitIdsOf(p), p.edges) :
              IF Len(ts.order) # Cardinality(InitIdsOf(p))
              THEN ctl' = [CtlIdle(ctl.starts + 1, ctl.stops, "raised_cycle")
                             EXCEPT !.pipeline = p]
              ELSE ctl' = [CtlIdle(ctl.starts + 1, ctl.stops, "starting")
                             EXCEPT !.pc = "init", !.onInitError = ie,
                                    !.pipeline = p,
                                    !.initOrder = ts.order,
                                    !.initUpstream = ts.upstream,
                                    !.initIdx = 1]
    /\ UNCHANGED <<auxVars, pubVars, sources, envTables, chainVars, lock, srcRunning, thr, faults,
                   unsubCount>>

\* start() returning from a failed init node with the flag still set
RunningAfterInitErrorKept == TRUE

\* "self._running = False" before start() returns from a failed init node
RunningAfterInitError == FALSE

\* one iteration of the init loop: node.execute either returns or raises
StartInitNode ==
    /\ ctl.pc = "init"
    /\ LET n == ctl.initOrder[ctl.initIdx]
           inputs == MergeUpstream(ctl.initUpstream[n], ctl.initResults)
           res == NodeExecute(NodeType(ctl.pipeline, n), inputs, envTables)
       IN /\ initLog' = Append(initLog, n)
          /\ \E raises \in MayRaise :
               /\ faults' = Raised(raises)
               /\ IF raises
                  THEN /\ initErrorCalls' =
                            IF ctl.onInitError # "none"
                            THEN Append(initErrorCalls, n) ELSE initErrorCalls
                       /\ running' = RunningAfterInitError
                       /\ ctl' = CtlIdle(ctl.starts, ctl.stops, "init_failed")
                       /\ UNCHANGED envTables
                  ELSE /\ envTables' = res.env
                       /\ ctl' = IF ctl.initIdx = Len(ctl.initOrder)
                                 THEN [CtlIdle(ctl.starts, ctl.stops, "starting")
                                         EXCEPT !.pc = "chain",
                                                !.pipeline = ctl.pipeline]
                                 ELSE [ctl EXCEPT
                                         !.initResults = (n :> res.output) @@ @,
                                         !.initIdx = @ + 1]
                       /\ UNCHANGED <<running, initErrorCalls>>
    /\ UNCHANGED <<auxVars, pubVars, sources, onTickComplete, chainVars, lock, srcRunning, thr,
                   tickHist, unsubCount>>

\* start() step 2: the processing chain and the per-source reachable sets
StartChain ==
    /\ ctl.pc = "chain"
    /\ \E ts \in TopoSort(ProcessingIdsOf(ctl.pipeline), ctl.pipeline.edges) :
         IF Len(ts.order) # Cardinality(ProcessingIdsOf(ctl.pipeline))
         THEN /\ ctl' = [CtlIdle(ctl.starts, ctl.stops, "raised_cycle")
                          EXCEPT !.pipeline = ctl.pipeline]
              /\ UNCHANGED chainVars
         ELSE /\ chainOrder' = ts.order
              /\ chainUpstream' = ts.upstream
              /\ sourceToProcessing' = SourceToProcessing(ctl.pipeline)
              /\ sourceReachable' = SourceReachable(ctl.pipeline)
              /\ nodes' = ctl.pipeline.nodes
              /\ ctl' = [ctl EXCEPT !.pc = "subscribe",
                                    !.pending = SourceIdsOf(ctl.pipeline)]
    /\ UNCHANGED <<auxVars, pubVars, running, sources, envTables, onTickComplete, lock, srcRunning,
                   thr, faults, tickHist, unsubCount, initHist>>

\* start() step 3, one source: setup + subscribe either succeed (the source
\* starts its thread) or raise (the exception leaves start())
StartSubscribe(s) ==
    /\ ctl.pc = "subscribe"
    /\ s \in ctl.pending
    /\ \E raises \in MayRaise :
         /\ faults' = Raised(raises)
         /\ IF raises
            THEN /\ ctl' = CtlIdle(ctl.starts, ctl.stops, "raised_source")
                 /\ UNCHANGED <<sources, srcRunning, thr>>
            ELSE /\ sources' = Append(sources, s)
                 /\ srcRunning' = [srcRunning EXCEPT ![s] = TRUE]
                 /\ thr' = [thr EXCEPT ![s] = ThreadAt("loop", 1)]
                 /\ ctl' = [ctl EXCEPT !.pending = @ \ {s}]
    /\ UNCHANGED <<auxVars, pubVars, running, envTables, onTickComplete, chainVars, lock, tickHist,
                   unsubCount, initHist>>

StartReturn ==
    /\ ctl.pc = "subscribe"
    /\ ctl.pending = {}
    /\ ctl' = CtlIdle(ctl.starts, ctl.stops, "started")
    /\ UNCHANGED <<auxVars, pubVars, running, sources, envTables, onTickComplete, chainVars, lock,
                   srcRunning, thr, faults, tickHist, unsubCount, initHist>>

\* ----------------------------------------------------------------- stop()
\* self._running = False
StopEnter ==
    /\ ctl.pc = "idle"
    /\ ctl.stops < MaxStops
    /\ unsubCount' = [s \in AllSources |-> 0]
    /\ running' = FALSE
    /\ ctl' = [CtlIdle(ctl.starts, ctl.stops + 1, "stopping")
                 EXCEPT !.pc = "unsub", !.stopIdx = 1]
    /\ UNCHANGED <<auxVars, pubVars, sources, envTables, onTickComplete, chainVars, lock,
                   srcRunning, thr, faults, tickHist, initHist>>

\* MockStreamSource.unsubscribe: clears the source's flag and joins its thread
\* with a timeout; an unsubscribe that raises may do so before or after
\* the flag is cleared
SourceUnsubscribe(s, raises, cleared) ==
    [srcRunning EXCEPT ![s] = IF raises /\ ~cleared THEN @ ELSE FALSE]

\* the loop of stop() left by the exception of an unsubscribe
StopLoopAbort(i, raises) == IF raises THEN Len(sources) + 1 ELSE i + 1

\* the position of stop()'s loop after the iteration at position i
StopLoopNext(i, raises) == i + 1

\* one iteration of stop()'s loop over self._sources; exceptions are logged
StopUnsubscribe ==
    /\ ctl.pc = "unsub"
    /\ ctl.stopIdx <= Len(sources)
    /\ LET s == sources[ctl.stopIdx]
       IN /\ unsubCount' = [unsubCount EXCEPT ![s] = @ + 1]
          /\ \E raises \in MayRaise, cleared \in BOOLEAN :
               /\ (~raises => cleared)
               /\ faults' = Raised(raises)
               /\ srcRunning' = SourceUnsubscribe(s, raises, cleared)
               /\ ctl' = [ctl EXCEPT !.stopIdx = StopLoopNext(@, raises),
                                     !.unsubRaisedAt = IF raises THEN ctl.stopIdx
                                                       ELSE @]
    /\ UNCHANGED <<auxVars, pubVars, running, sources, envTables, onTickComplete, chainVars, lock,
                   thr, tickHist, initHist>>

\* self._sources.clear(), and stop() returns
StopClear ==
    /\ ctl.pc = "unsub"
    /\ ctl.stopIdx > Len(sources)
    /\ sources' = <<>>
    /\ ctl' = CtlIdle(ctl.starts, ctl.stops, "stopped")
    /\ UNCHANGED <<auxVars, pubVars, running, envTables, onTickComplete, chainVars, lock, srcRunning,
                   thr, faults, tickHist, unsubCount, initHist>>

\* -------------------------------------------------------- source threads
\* MockStreamSource._loop: the next message is handed to the callback unless the
\* messages are used up or the source's flag has been cleared
SourceLoop(s) ==
    /\ thr[s].pc = "loop"
    /\ thr' = [thr EXCEPT ![s] = IF thr[s].msg > MaxMsgs \/ ~srcRunning[s]
                                 THEN ThreadAt("done", 0)
                                 ELSE ThreadAt("check", thr[s].msg)]
    /\ UNCHANGED <<auxVars, pubVars, running, sources, envTables, onTickComplete, chainVars, lock,
                   srcRunning, ctl, faults, tickHist, unsubCount, initHist>>

\* the handler going on whatever the flag says
HandlerReturnsNever == FALSE

\* "if not self._running: return"
HandlerReturns == ~running

\* _on_message: the running check
OnMessageCheck(s) ==
    /\ thr[s].pc = "check"
    /\ IF HandlerReturns
       THEN /\ thr' = [thr EXCEPT ![s] = ThreadAt("loop", thr[s].msg + 1)]
            /\ tickState' = [tickState EXCEPT ![Tid(s)] = "dropped"]
       ELSE /\ thr' = [thr EXCEPT ![s] = ThreadAt("acquire", thr[s].msg)]
            /\ UNCHANGED tickState
    /\ UNCHANGED <<auxVars, pubVars, running, sources, envTables, onTickComplete, chainVars, lock,
                   srcRunning, ctl, faults, execLog, cbCount, unsubCount,
                   initHist>>

\* the "with" block entered without regard to the holder of the lock
LockAvailableAlways(s) == TRUE

\* whether "with self._lock" may be entered by thread s
LockAvailable(s) == lock = "free"

\* "with self._lock:" entered, outputs = {source_id: data}
OnMessageAcquire(s) ==
    /\ thr[s].pc = "acquire"
    /\ LockAvailable(s)
    /\ lock' = s
    /\ thr' = [thr EXCEPT ![s].pc = "tick", ![s].idx = 1,
                          ![s].outputs = (s :> Message(s, thr[s].msg))]
    /\ tickState' = [tickState EXCEPT ![Tid(s)] = "running"]
    /\ UNCHANGED <<auxVars, pubVars, running, sources, envTables, onTickComplete, chainVars,
                   srcRunning, ctl, faults, execLog, cbCount, unsubCount,
                   initHist>>

\* every node of the chain taken for reachable
ReachableOfAll(s) == SeqToSet(chainOrder)

\* reachable = self._source_reachable.get(source_id, set())
ReachableOf(s) ==
    IF s \in DOMAIN sourceReachable THEN sourceReachable[s] ELSE {}

\* the chain loop cut short once stop() has cleared the flag
RemainingWhileRunning(s) ==
    IF running
    THEN {j \in thr[s].idx..Len(chainOrder) : chainOrder[j] \in ReachableOf(s)}
    ELSE {}

\* the positions of the chain loop that are not skipped, from idx on
Remaining(s) ==
    {j \in thr[s].idx..Len(chainOrder) : chainOrder[j] \in ReachableOf(s)}

\* the inputs without "inputs.update(data)" for the directly wired nodes
TickInputsUpstreamOnly(s, n) ==
    MergeUpstream(IF n \in DOMAIN chainUpstream THEN chainUpstream[n] ELSE <<>>,
                  thr[s].outputs)

\* inputs of node n in the tick of source s
TickInputs(s, n) ==
    LET ups == IF n \in DOMAIN chainUpstream THEN chainUpstream[n] ELSE <<>>
        fromUp == MergeUpstream(ups, thr[s].outputs)
        direct == IF s \in DOMAIN sourceToProcessing
                  THEN SeqToSet(sourceToProcessing[s]) ELSE {}
    IN IF n \in direct THEN Update(fromUp, Message(s, thr[s].msg)) ELSE fromUp

\* the chain loop going on to the next position after a node raised
AfterRaiseContinue(j) == j + 1

\* the chain position after the node at position j raised: "break"
AfterRaise(j) == Len(chainOrder) + 1

\* one iteration of the chain loop that executes a node (the skipped
\* positions before it included): node.execute returns or raises
OnMessageNode(s) ==
    /\ thr[s].pc = "tick"
    /\ Remaining(s) # {}
    /\ LET j == CHOOSE k \in Remaining(s) : \A m \in Remaining(s) : k <= m
           n == chainOrder[j]
           res == NodeExecute(NodeType([nodes |-> nodes], n), TickInputs(s, n),
                              envTables)
       IN \E raises \in MayRaise :
            /\ faults' = Raised(raises)
            /\ execLog' = Append(execLog, [src |-> s, msg |-> thr[s].msg,
                                           node |-> n, ok |-> ~raises])
            /\ IF raises
               THEN /\ thr' = [thr EXCEPT ![s].tickOk = FALSE,
                                          ![s].idx = AfterRaise(j),
                                          ![s].outputs = EmptyDict,
                                          ![s].span = SpanAfter(@)]
                    /\ UNCHANGED envTables
               ELSE /\ envTables' = res.env
                    /\ thr' = [thr EXCEPT ![s].idx = j + 1,
                                          ![s].outputs = (n :> res.output) @@ @,
                                          ![s].span = SpanAfter(@)]
    /\ UNCHANGED <<auxVars, pubVars, running, sources, onTickComplete, chainVars, lock, srcRunning,
                   ctl, cbCount, tickState, unsubCount, initHist>>

\* the lock stays with the thread that took it
ReleasedKept(s) == s

\* the lock when thread s leaves the "with" block
Released(s) == "free"

\* the chain loop is over: the "with" block is left
OnMessageRelease(s) ==
    /\ thr[s].pc = "tick"
    /\ Remaining(s) = {}
    /\ lock' = Released(s)
    /\ thr' = [thr EXCEPT ![s] = [ThreadAt("post", thr[s].msg)
                                    EXCEPT !.tickOk = thr[s].tickOk,
                                           !.span = thr[s].span]]
    /\ UNCHANGED <<auxVars, pubVars, running, sources, envTables, onTickComplete, chainVars,
                   srcRunning, ctl, faults, tickHist, unsubCount, initHist>>

\* the callback invoked whatever the outcome of the tick
CallsBackAlways(tickOk, cb) == cb # "none"

\* "if tick_ok and self._on_tick_complete"
CallsBack(tickOk, cb) == tickOk /\ cb # "none"

\* the callback runs after the "with" block; an exception it raises is
\* logged and swallowed. The handler returns and the source goes on to its
\* next message.
OnMessagePost(s) ==
    /\ thr[s].pc = "post"
    /\ IF CallsBack(thr[s].tickOk, onTickComplete)
       THEN \E raises \in MayRaise :
              /\ faults' = Raised(raises)
              /\ cbCount' = [cbCount EXCEPT ![Tid(s)] = @ + 1]
              /\ tickState' = [tickState EXCEPT ![Tid(s)] =
                                  IF raises THEN "ok_callback_raised" ELSE "ok"]
       ELSE /\ tickState' = [tickState EXCEPT ![Tid(s)] =
                                IF thr[s].tickOk THEN "ok" ELSE "failed"]
            /\ UNCHANGED <<cbCount, faults>>
    /\ thr' = [thr EXCEPT ![s] = ThreadAt("loop", thr[s].msg + 1)]
    /\ UNCHANGED <<auxVars, pubVars, running, sources, envTables, onTickComplete, chainVars, lock,
                   srcRunning, ctl, execLog, unsubCount, initHist>>

\* ------------------------------------------------------- PublishRegistry
Keys == {"p/a", "p/b"}

\* what get() and unregister() return for a key that is not registered
NoEntry == [key |-> "none", env |-> 0, executor |-> 0]

RegistryHas(reg, k) == \E i \in 1..Len(reg) : reg[i].key = k

\* PublishRegistry.get
RegistryGet(reg, k) ==
    IF RegistryHas(reg, k)
    THEN reg[CHOOSE i \in 1..Len(reg) : reg[i].key = k]
    ELSE NoEntry

\* register appending an entry whether or not the key is there
RegistryRegisterAppend(reg, k, env, ex) ==
    Append(reg, [key |-> k, env |-> env, executor |-> ex])

\* PublishRegistry.register: self._running[key] = {...} (a dict assignment:
\* an existing key keeps its position, a new key goes to the end)
RegistryRegister(reg, k, env, ex) ==
    LET e == [key |-> k, env |-> env, executor |-> ex]
    IN IF RegistryHas(reg, k)
       THEN [i \in 1..Len(reg) |-> IF reg[i].key = k THEN e ELSE reg[i]]
       ELSE Append(reg, e)

\* unregister returning the entry and leaving it in the dict
RegistryUnregisterKeep(reg, k) == reg

\* PublishRegistry.unregister: self._running.pop(key, None)
RegistryUnregister(reg, k) == SelectSeq(reg, LAMBDA e : e.key # k)

\* PublishRegistry.list_running
ListRunning(reg) == [i \in 1..Len(reg) |-> reg[i].key]

\* ------------------------------------------------------ published executors
\* StreamingExecutor.start as publish and restore see it: it returns with
\* the executor running and subscribed, returns after an init node raised
\* (not running, nothing subscribed), or raises (cycle, unknown node type,
\* a source's setup or subscribe: running stays set)
StartOutcomes == {"started", "init_failed", "raised"}

\* the executor object after start(pipeline, env, on_tick_complete = cb)
StartedExecutor(k, cb, outcome) ==
    [key |-> k, cb |-> cb, outcome |-> outcome,
     running |-> outcome # "init_failed",
     subscribed |-> outcome = "started",
     post |-> FALSE]

\* the on_tick_complete publish_pipeline hands to executor.start
PublishCallback == "none"

\* the on_tick_complete lifespan() hands to executor.start
RestoreCallback == "notify"

\* whether publish_pipeline goes on to register after start() returned
PublishRegisters(outcome) == outcome # "raised"

\* the executor of an unpublished entry left as it is
StoppedExecutorNot(ex) == ex

\* StreamingExecutor.stop
StoppedExecutor(ex) == [ex EXCEPT !.running = FALSE, !.subscribed = FALSE]

ReqFree == [op |-> "none", key |-> "none", pc |-> "free", ex |-> 0]

\* a response of publish_pipeline / unpublish_pipeline
Response(op, k, result) == [op |-> op, key |-> k, result |-> result]

NoResponse == Response("none", "none", "none")

\* the worker thread that takes the next request
FreeWorker(r) ==
    /\ req[r].pc = "free"
    /\ \A q \in 1..MaxWorkers : req[q].pc = "free" => r <= q

\* the stored pipelines when the application boots
StoredAtBoot ==
    {[k \in Keys |-> "unpublished"],
     [k \in Keys |-> IF k = "p/a" THEN "published" ELSE "unpublished"],
     [k \in Keys |-> IF k = "p/a" THEN "published" ELSE "absent"]}

PubInit ==
    /\ store \in StoredAtBoot
    /\ pubRegistry = <<>>
    /\ executors = <<>>
    /\ req = [r \in 1..MaxWorkers |-> ReqFree]
    /\ boot = [serving |-> FALSE, todo |-> Keys]
    /\ connections = EmptyDict
    /\ sent = [c \in 1..MaxSockets |-> <<>>]
    /\ nTicks = 0
    /\ nReqs = 0
    /\ nConns = 0
    /\ resp = NoResponse

\* the publish layer while only the executor is exercised
PubIdle ==
    /\ store = [k \in Keys |-> "unpublished"]
    /\ pubRegistry = <<>>
    /\ executors = <<>>
    /\ req = [r \in 1..MaxWorkers |-> ReqFree]
    /\ boot = [serving |-> TRUE, todo |-> {}]
    /\ connections = EmptyDict
    /\ sent = [c \in 1..MaxSockets |-> <<>>]
    /\ nTicks = 0
    /\ nReqs = 0
    /\ nConns = 0
    /\ resp = NoResponse

\* ------------------------------------------------------- lifespan: restore
\* the names the module mirador/api/pipelines.py binds: what it imports and
\* what it defines
PipelinesModuleNames ==
    {"json", "queue", "threading", "Any", "APIRouter", "HTTPException",
     "StreamingResponse", "BaseModel", "Field", "PipelineExecutor", "get_registry",
     "router", "PipelineNode", "PipelineEdge", "PipelinePayload",
     "run_pipeline", "run_pipeline_stream", "publish_pipeline",
     "unpublish_pipeline", "_serialize_results"}

\* "from mirador.api.pipelines import name": ImportError unless the module
\* defines the name
ImportRaises(name) == name \notin PipelinesModuleNames

\* one iteration of the restore loop: pipelines that are not published are
\* skipped; an exception while restoring one, the ImportError of the import
\* inside the try block included, is logged and the loop goes on
Restore(k) ==
    /\ ~boot.serving
    /\ k \in boot.todo
    /\ boot' = [boot EXCEPT !.todo = @ \ {k}]
    /\ IF store[k] # "published" \/ ImportRaises("_unwrap_reactflow")
       THEN UNCHANGED <<executors, pubRegistry>>
       ELSE \E outcome \in StartOutcomes :
              /\ executors' = Append(executors,
                                     StartedExecutor(k, RestoreCallback, outcome))
              /\ pubRegistry' =
                    IF outcome = "raised" THEN pubRegistry
                    ELSE RegistryRegister(pubRegistry, k, Len(executors) + 1,
                                          Len(executors) + 1)
    /\ UNCHANGED <<auxVars, execVars, store, req, connections, sent, nTicks, nReqs, nConns, resp>>

\* the restore loop is over: the application serves requests
BootDone ==
    /\ ~boot.serving
    /\ boot.todo = {}
    /\ boot' = [boot EXCEPT !.serving = TRUE]
    /\ UNCHANGED <<auxVars, execVars, store, pubRegistry, executors, req, connections,
                   sent, nTicks, nReqs, nConns, resp>>

\* ------------------------------------------------------- publish_pipeline
\* publish_pipeline without its "Already published" check
PublishConflictNever(reg, k) == FALSE

\* "if registry.get(key)": the key is already published
PublishConflict(reg, k) == RegistryGet(reg, k) # NoEntry

\* load_pipeline (404 when missing), then registry.get(key) (409 when set)
PublishCheck(r, k) ==
    /\ boot.serving
    /\ nReqs < MaxReqs
    /\ FreeWorker(r)
    /\ nReqs' = nReqs + 1
    /\ IF store[k] = "absent"
       THEN resp' = Response("publish", k, "404") /\ UNCHANGED req
       ELSE IF PublishConflict(pubRegistry, k)
            THEN resp' = Response("publish", k, "409") /\ UNCHANGED req
            ELSE /\ req' = [req EXCEPT ![r] = [ReqFree EXCEPT !.op = "publish",
                                                               !.key = k,
                                                               !.pc = "save"]]
                 /\ UNCHANGED resp
    /\ UNCHANGED <<auxVars, execVars, store, pubRegistry, executors, boot, connections,
                   sent, nTicks, nConns>>

\* pipeline["published"] = True; store.save_pipeline(...)
PublishSave(r) ==
    /\ req[r].op = "publish"
    /\ req[r].pc = "save"
    /\ store' = [store EXCEPT ![req[r].key] = "published"]
    /\ req' = [req EXCEPT ![r].pc = "start"]
    /\ UNCHANGED <<auxVars, execVars, pubRegistry, executors, boot, connections, sent,
                   nTicks, nReqs, nConns, resp>>

\* env = TableEnv(); executor = StreamingExecutor(...); executor.start(pipeline, env)
PublishStart(r) ==
    /\ req[r].op = "publish"
    /\ req[r].pc = "start"
    /\ \E outcome \in StartOutcomes :
         /\ executors' = Append(executors,
                                StartedExecutor(req[r].key, PublishCallback, outcome))
         /\ IF PublishRegisters(outcome)
            THEN /\ req' = [req EXCEPT ![r].pc = "register",
                                       ![r].ex = Len(executors) + 1]
                 /\ UNCHANGED resp
            ELSE /\ req' = [req EXCEPT ![r] = ReqFree]
                 /\ resp' = Response("publish", req[r].key, "500")
    /\ UNCHANGED <<auxVars, execVars, store, pubRegistry, boot, connections, sent, nTicks,
                   nReqs, nConns>>

\* registry.register(key, env, executor)
PublishRegister(r) ==
    /\ req[r].op = "publish"
    /\ req[r].pc = "register"
    /\ pubRegistry' = RegistryRegister(pubRegistry, req[r].key, req[r].ex, req[r].ex)
    /\ req' = [req EXCEPT ![r] = ReqFree]
    /\ resp' = Response("publish", req[r].key, "published")
    /\ UNCHANGED <<auxVars, execVars, store, executors, boot, connections, sent, nTicks,
                   nReqs, nConns>>

\* ----------------------------------------------------- unpublish_pipeline
\* entry = registry.unregister(key)
UnpublishUnregister(r, k) ==
    /\ boot.serving
    /\ nReqs < MaxReqs
    /\ FreeWorker(r)
    /\ nReqs' = nReqs + 1
    /\ pubRegistry' = RegistryUnregister(pubRegistry, k)
    /\ req' = [req EXCEPT ![r] = [ReqFree EXCEPT !.op = "unpublish", !.key = k,
                                                  !.pc = "stop",
                                                  !.ex = RegistryGet(pubRegistry, k).executor]]
    /\ UNCHANGED <<auxVars, execVars, store, executors, boot, connections, sent, nTicks,
                   nConns, resp>>

\* if entry and entry["executor"]: entry["executor"].stop()
UnpublishStop(r) ==
    /\ req[r].op = "unpublish"
    /\ req[r].pc = "stop"
    /\ executors' = IF req[r].ex = 0 THEN executors
                    ELSE [executors EXCEPT ![req[r].ex] = StoppedExecutor(@)]
    /\ req' = [req EXCEPT ![r].pc = "save"]
    /\ UNCHANGED <<auxVars, execVars, store, pubRegistry, boot, connections, sent, nTicks,
                   nReqs, nConns, resp>>

\* load_pipeline; if pipeline: published = False; save_pipeline
UnpublishSave(r) ==
    /\ req[r].op = "unpublish"
    /\ req[r].pc = "save"
    /\ store' = IF store[req[r].key] = "absent" THEN store
                ELSE [store EXCEPT ![req[r].key] = "unpublished"]
    /\ req' = [req EXCEPT ![r] = ReqFree]
    /\ resp' = Response("unpublish", req[r].key, "unpublished")
    /\ UNCHANGED <<auxVars, execVars, pubRegistry, executors, boot, connections, sent,
                   nTicks, nReqs,
                   nConns>>

\* --------------------------------------------- ticks of published executors
\* _on_message of a published executor up to the end of the "with" block:
\* dropped unless running; the tick body succeeds or a node raises
PubTickBody(e) ==
    /\ nTicks < MaxTicks
    /\ executors[e].subscribed
    /\ executors[e].running
    /\ ~executors[e].post
    /\ nTicks' = nTicks + 1
    /\ \E ok \in BOOLEAN :
         executors' = [executors EXCEPT ![e].post = ok]
    /\ UNCHANGED <<auxVars, execVars, store, pubRegistry, req, boot, connections, sent,
                   nReqs, nConns, resp>>

\* notify_data_changed: the sockets registered for the key at this moment
\* the events sent to a dashboard socket
Event(event, widget_id, error) ==
    [event |-> event, widget_id |-> widget_id, error |-> error,
     rows |-> <<>>, columns |-> <<>>, total |-> 0]

\* {"event": "data_changed", ...}
DataChanged == Event("data_changed", "none", <<>>)

\* {"event": "error", "error": "Pipeline '<k>' not running"}
NotRunning(k) == Event("error", "none", <<"Pipeline", k, "not running">>)

NotifyTargets(k) ==
    IF k \in DOMAIN connections THEN DOMAIN connections[k] ELSE {}

\* _on_message after the "with" block: on_tick_complete, when there is one,
\* calls notify_data_changed(key, env.list())
PubTickCallback(e) ==
    /\ executors[e].post
    /\ executors' = [executors EXCEPT ![e].post = FALSE]
    /\ sent' = IF executors[e].cb = "notify"
               THEN [c \in 1..MaxSockets |->
                       IF c \in NotifyTargets(executors[e].key)
                       THEN Append(sent[c], DataChanged) ELSE sent[c]]
               ELSE sent
    /\ UNCHANGED <<auxVars, execVars, store, pubRegistry, req, boot, connections, nTicks,
                   nReqs, nConns, resp>>

\* ------------------------------------------------------------ ws_dashboard
\* a socket is opened for key k: an error event and close when the key is
\* not in the registry, else the connection is tracked
WsAcceptsAlways(reg, k) == TRUE

\* entry = registry.get(pipeline_key); entry is not None
WsAccepts(reg, k) == RegistryGet(reg, k) # NoEntry

WsConnect(c, k) ==
    /\ boot.serving
    /\ c = nConns + 1
    /\ nConns' = c
    /\ IF ~WsAccepts(pubRegistry, k)
       THEN /\ sent' = [sent EXCEPT ![c] = Append(@, NotRunning(k))]
            /\ UNCHANGED connections
       ELSE /\ connections' =
                 (k :> ((c :> EmptyDict) @@
                        (IF k \in DOMAIN connections THEN connections[k] ELSE EmptyDict)))
                 @@ connections
            /\ UNCHANGED sent
    /\ UNCHANGED <<auxVars, execVars, store, pubRegistry, executors, req, boot, nTicks,
                   nReqs, resp>>

\* a dict without key k
DictPop(d, k) == [x \in DOMAIN d \ {k} |-> d[x]]

\* the client disconnects, or the handler raises on a message: the "finally"
\* block of ws_dashboard
WsDisconnect(c, k) ==
    /\ k \in DOMAIN connections
    /\ c \in DOMAIN connections[k]
    /\ LET conns == DictPop(connections[k], c)
       IN connections' = IF DOMAIN conns = {} THEN DictPop(connections, k)
                         ELSE (k :> conns) @@ connections
    /\ UNCHANGED <<auxVars, execVars, store, pubRegistry, executors, req, boot, sent, nTicks,
                   nReqs, nConns, resp>>

\* ------------------------------------------- PublishRegistry called directly
\* no call of the registry has been made
RegIdle ==
    regHist = [op |-> "none", key |-> "none", env |-> 0, executor |-> 0,
               ret |-> NoEntry, list |-> <<>>,
               calls |-> 0, registers |-> 0, added |-> 0, removed |-> 0]

\* ----------------------------------------- TableEnv under concurrent callers
Callers == {"t1", "t2"}

TableNames == {"a", "b"}

TableValues == {1, 2}

\* name in self._tables; self._tables[name] raises KeyError without it
TableEnvHas(tables, name) == name \in DOMAIN tables

TableEnvDropKeep(tables, name) == tables

\* self._tables.pop(name, None)
TableEnvDrop(tables, name) == [n \in DOMAIN tables \ {name} |-> tables[n]]

\* list(self._tables.keys()), as the set of its names
TableEnvList(tables) == DOMAIN tables

NoReturn == [exc |-> "none", val |-> 0, names |-> {}]

\* a caller outside any call, n calls made
CallIdle(n) ==
    [pc |-> "idle", op |-> "none", name |-> "none", val |-> 0, floor |-> 0,
     ret |-> NoReturn, n |-> n]

EnvIdle ==
    /\ envLock = "free"
    /\ envCall = [t \in Callers |-> CallIdle(0)]
    /\ envEffects = <<>>

\* no notification is on its way
DashIdle == notifying = <<>>

\* _query_table is not being called
QueryIdle ==
    query = [pc |-> "idle", table_data |-> [rows |-> <<>>, columns |-> <<>>, total |-> 0],
             page |-> 0, page_size |-> 0,
             result |-> [rows |-> <<>>, columns |-> <<>>, total |-> 0]]

\* ---------------------------------------------------- scheduler: sync_schedules
\* the coroutines that call sync_schedules, as the save path does
Syncers == {"s1", "s2"}

\* the pipeline whose saves are followed
SyncKeys == {"p/a"}

\* cron expressions, as the fields expression.strip().split() gives
Cron5 == <<"0", "9", "*", "*", "*">>

Cron5b == <<"*/5", "*", "*", "*", "*">>

Cron4 == <<"*/5", "*", "*", "*">>

Cron6 == <<"0", "0", "9", "*", "*", "*">>

\* a schedule_trigger node with these config entries
Trigger(id, config) == [id |-> id, type |-> "schedule_trigger", config |-> config]

\* the pipelines sync_schedules is called with: no schedule_trigger node,
\* one (enabled by default or explicitly, disabled, without an expression,
\* with an expression of 4 or 6 fields), and two
SchedPipelines ==
    LET other == [id |-> "n0", type |-> "grid", config |-> [title |-> "grid"]]
        on(id, e) == Trigger(id, [cron_expression |-> e])
        off(id, e) == Trigger(id, [cron_expression |-> e, enabled |-> FALSE])
    IN {[nodes |-> ns] : ns \in
          { <<other>>,
            <<on("n1", Cron5)>>,
            <<other, Trigger("n1", [cron_expression |-> Cron5b, enabled |-> TRUE])>>,
            <<off("n1", Cron5)>>,
            <<Trigger("n1", [enabled |-> TRUE])>>,
            <<on("n1", Cron4)>>,
            <<on("n1", Cron6)>>,
            <<off("n1", Cron5), on("n2", Cron5b)>>,
            <<on("n1", Cron4), on("n2", Cron5)>>,
            <<on("n1", Cron5), on("n2", Cron5b)>> }}

\* dict.get(name, default)
GetOr(d, name, default) == IF name \in DOMAIN d THEN d[name] ELSE default

\* _parse_cron: the trigger of the 5 fields, ValueError raised for any other
\* number of fields
ParseCron(expression) ==
    IF Len(expression) # 5 THEN [raised |-> "ValueError", fields |-> <<>>]
    ELSE [raised |-> "none", fields |-> expression]

\* the loop body of sync_schedules on one node: whether the loop goes on to
\* the next node ("continue") or registers this one
Skips(node) ==
    \/ node.type # "schedule_trigger"
    \/ GetOr(node.config, "cron_expression", <<>>) = <<>>
    \/ ~GetOr(node.config, "enabled", TRUE)
    \/ ParseCron(node.config.cron_expression).raised = "ValueError"

ScanFirstTriggerOnly(ns, i) ==
    LET ts == {j \in i..Len(ns) : ns[j].type = "schedule_trigger"}
    IN IF ts = {} THEN 0
       ELSE LET f == CHOOSE j \in ts : \A h \in ts : j <= h
            IN IF Skips(ns[f]) THEN 0 ELSE f

\* the for loop of sync_schedules from node i on: the index of the node it
\* registers, 0 when it ends without registering one
RECURSIVE Scan(_, _)
Scan(ns, i) ==
    IF i > Len(ns) THEN 0
    ELSE IF Skips(ns[i]) THEN Scan(ns, i + 1)
    ELSE i

\* a coroutine outside sync_schedules; ret is how its latest call ended
SyncIdle(ret) ==
    [pc |-> "idle", key |-> "none", pipeline |-> [nodes |-> <<>>], node |-> 0,
     hadJob |-> FALSE, agreed |-> TRUE, overlap |-> FALSE, fault |-> FALSE, ret |-> ret]

SchedIdle ==
    /\ scheduler = "none"
    /\ jobs = EmptyDict
    /\ cronJobs = EmptyDict
    /\ sync = [t \in Syncers |-> SyncIdle("none")]
    /\ libFaults = 0

\* start_scheduler
StartScheduler ==
    /\ scheduler = "none"
    /\ scheduler' = "started"
    /\ UNCHANGED <<execVars, pubVars, schedRest, jobs, cronJobs, sync, libFaults>>

\* another coroutine is inside sync_schedules for the same key
Overlaps(t, k) == \E u \in Syncers \ {t} : sync[u].pc # "idle" /\ sync[u].key = k

\* the call of t goes on from the scan of the nodes: it waits in
\* add_schedule, or returns when no node is to be registered
AfterScan(call) ==
    LET i == Scan(call.pipeline.nodes, 1)
    IN IF i = 0 THEN [call EXCEPT !.pc = "idle", !.ret = "returned"]
       ELSE [call EXCEPT !.pc = "add", !.node = i]

\* the other coroutines, marked when the call of t for key k overlaps theirs
Marked(t, k) ==
    [u \in Syncers |->
        IF u # t /\ sync[u].pc # "idle" /\ sync[u].key = k
        THEN [sync[u] EXCEPT !.overlap = TRUE] ELSE sync[u]]

\* sync_schedules(k, p) up to its first await: it returns when there is no
\* scheduler, waits in remove_job when the key has a job, and else scans
SyncEnter(t, k, p) ==
    /\ sync[t].pc = "idle"
    /\ LET call == [pc |-> "remove", key |-> k, pipeline |-> p, node |-> 0,
                    hadJob |-> k \in DOMAIN jobs,
                    agreed |-> (k \in DOMAIN jobs) = (k \in DOMAIN cronJobs),
                    overlap |-> Overlaps(t, k), fault |-> FALSE, ret |-> "none"]
       IN sync' = IF scheduler = "none"
                  THEN [sync EXCEPT ![t] = SyncIdle("returned")]
                  ELSE [Marked(t, k) EXCEPT ![t] =
                          IF k \in DOMAIN jobs THEN call ELSE AfterScan(call)]
    /\ UNCHANGED <<execVars, pubVars, schedRest, scheduler, jobs, cronJobs, libFaults>>

\* await _scheduler.remove_job(_jobs[key]) ends, by returning or by raising
\* (the library raises for a job it does not hold, and may raise and keep
\* the job); the exception is dropped; then del _jobs[key], which raises
\* KeyError when the key is gone, and the scan
SyncRemoved(t, raises) ==
    /\ sync[t].pc = "remove"
    /\ LET k == sync[t].key
       IN /\ IF raises
             THEN /\ k \in DOMAIN cronJobs => libFaults < MaxLibFaults
                  /\ libFaults' = IF k \in DOMAIN cronJobs THEN libFaults + 1
                                  ELSE libFaults
                  /\ UNCHANGED cronJobs
             ELSE /\ k \in DOMAIN cronJobs
                  /\ cronJobs' = DictPop(cronJobs, k)
                  /\ UNCHANGED libFaults
          /\ IF k \in DOMAIN jobs
             THEN /\ jobs' = DictPop(jobs, k)
                  /\ sync' = [sync EXCEPT ![t] =
                                AfterScan([sync[t] EXCEPT !.fault = @ \/ raises])]
             ELSE /\ UNCHANGED jobs
                  /\ sync' = [sync EXCEPT ![t] =
                                [sync[t] EXCEPT !.pc = "idle", !.ret = "KeyError",
                                                !.fault = @ \/ raises]]
    /\ UNCHANGED <<execVars, pubVars, schedRest, scheduler>>

\* what add_schedule does for an id the library holds already
ConflictPolicies == {"replace", "do_nothing", "exception"}

\* await _scheduler.add_schedule(..., id=key) ends: the library holds the
\* schedule and _jobs[key] is set, or it raised and the exception leaves
\* sync_schedules
SyncAdded(t, policy, raises) ==
    /\ sync[t].pc = "add"
    /\ LET k == sync[t].key
           node == sync[t].pipeline.nodes[sync[t].node]
           trigger == [node |-> node.id,
                       fields |-> ParseCron(node.config.cron_expression).fields]
           conflict == k \in DOMAIN cronJobs
       IN IF raises \/ (conflict /\ policy = "exception")
          THEN /\ raises => (libFaults < MaxLibFaults /\ policy = "replace")
               /\ libFaults' = IF raises THEN libFaults + 1 ELSE libFaults
               /\ sync' = [sync EXCEPT ![t] =
                             [sync[t] EXCEPT !.pc = "idle", !.ret = "raised",
                                             !.fault = TRUE]]
               /\ UNCHANGED <<jobs, cronJobs>>
          ELSE /\ conflict \/ policy = "replace"
               /\ cronJobs' = IF conflict /\ policy = "do_nothing" THEN cronJobs
                              ELSE (k :> trigger) @@ cronJobs
               /\ jobs' = (k :> k) @@ jobs
               /\ sync' = [sync EXCEPT ![t] =
                             [sync[t] EXCEPT !.pc = "idle", !.ret = "returned"]]
               /\ UNCHANGED libFaults
    /\ UNCHANGED <<execVars, pubVars, schedRest, scheduler>>

SchedNext ==
    \/ StartScheduler
    \/ \E t \in Syncers, k \in SyncKeys, p \in SchedPipelines : SyncEnter(t, k, p)
    \/ \E t \in Syncers, raises \in BOOLEAN : SyncRemoved(t, raises)
    \/ \E t \in Syncers, policy \in ConflictPolicies, raises \in BOOLEAN :
           SyncAdded(t, policy, raises)

\* ------------------------------------------------ scheduler: _run_pipeline_job
\* _MAX_HISTORY
MaxHistory == 50

\* how the body of the try block of _run_pipeline_job ends: the run
\* completes, load_pipeline returns None, or an Exception is raised
RunOutcomes == {"ok", "not_found", "raised"}

\* the entry of a run: the timestamp is the number of the run among the runs
\* of its key
RunEntry(timestamp, outcome) ==
    IF outcome = "ok" THEN [timestamp |-> timestamp, status |-> "ok"]
    ELSE [timestamp |-> timestamp, status |-> "error",
          error |-> IF outcome = "not_found" THEN "Workflow not found" ELSE "boom"]

TrimKeepsOldest(history) ==
    IF Len(history) > MaxHistory THEN SubSeq(history, 1, MaxHistory) ELSE history

\* if len(history) > _MAX_HISTORY: history[-_MAX_HISTORY:]
Trim(history) ==
    IF Len(history) > MaxHistory
    THEN SubSeq(history, Len(history) - MaxHistory + 1, Len(history))
    ELSE history

\* get_run_history
GetRunHistory(k) == GetOr(runHistory, k, <<>>)

\* the runs of key k so far
Runs(k) == runClock[k]

ErrorEntries(k) ==
    Cardinality({i \in DOMAIN GetRunHistory(k) : GetRunHistory(k)[i].status = "error"})

JobIdle == runHistory = EmptyDict /\ runClock = [k \in Keys |-> 0] /\ jobRet = "none"

\* _run_pipeline_job for key k: the try block ends with the outcome, the
\* except clause takes the Exception, the finally clause appends the entry
\* and trims the history; the coroutine has no await and runs in one step
RunPipelineJob(k, outcome) ==
    /\ Runs("p/a") + Runs("p/b") < MaxRuns
    /\ outcome # "ok" => ErrorEntries("p/a") + ErrorEntries("p/b") < MaxErrorEntries
    /\ runHistory' = (k :> Trim(Append(GetRunHistory(k), RunEntry(Runs(k) + 1, outcome))))
                        @@ runHistory
    /\ runClock' = [runClock EXCEPT ![k] = @ + 1]
    /\ jobRet' = "returned"
    /\ UNCHANGED <<execVars, pubVars, jobRest>>

JobNext == \E k \in Keys, outcome \in RunOutcomes : RunPipelineJob(k, outcome)

\* ------------------------------------------------ the locks and their holders
\* The pipeline of the executor tests with a second source: an init node sets
\* the counter, each source feeds the one processing node that increments it.
CounterPipeline ==
    [nodes |-> << [id |-> "init1", type |-> "setup_node", config |-> <<>>],
                  [id |-> "src1", type |-> "mock_stream", config |-> <<>>],
                  [id |-> "src2", type |-> "mock_stream", config |-> <<>>],
                  [id |-> "proc1", type |-> "mock_process", config |-> <<>>] >>,
     edges |-> << [source |-> "src1", target |-> "proc1"],
                  [source |-> "src2", target |-> "proc1"] >>]

\* the chain loop of a tick of source s: the reachable nodes in chain order
CounterChain ==
    LET ts == CHOOSE t \in TopoSort(ProcessingIdsOf(CounterPipeline),
                                    CounterPipeline.edges) : TRUE
    IN [s \in SourceIdsOf(CounterPipeline) |->
          SelectSeq(ts.order, LAMBDA n : n \in SourceReachable(CounterPipeline)[s])]

\* the source threads, the thread of the event loop (dashboard sockets) and
\* the thread that calls start() and stop()
LockThreads == AllSources \cup {"loop", "ctl"}

\* a thread at pc; "next" is where it goes on after the lock it takes
LockAt(pc, next, msg) ==
    [pc |-> pc, next |-> next, msg |-> msg, idx |-> 0, local |-> 0, tickOk |-> TRUE]

LockIdle ==
    /\ connLock = "free"
    /\ lockThr = [t \in LockThreads |->
                    IF t = "loop" THEN LockAt("idle", "none", 0)
                    ELSE IF t = "ctl" THEN LockAt("new", "none", 0)
                    ELSE LockAt("off", "none", 0)]
    /\ lockHist = [writes |-> 0, callbacks |-> 0]

\* thread t goes on to a method of the TableEnv: it reaches "with self._lock"
ToEnv(t, next) == [lockThr[t] EXCEPT !.pc = "env_wait", !.next = next]

\* thread t reaches "with _connections_lock"
ToConn(t, next) == [lockThr[t] EXCEPT !.pc = "conn_wait", !.next = next]

\* start(): the flag is set and the init node runs, which calls env.set
LkStart(cb) ==
    /\ lockThr["ctl"].pc = "new"
    /\ running' = TRUE
    /\ onTickComplete' = cb
    /\ lockThr' = [lockThr EXCEPT !["ctl"] = ToEnv("ctl", "init_set")]
    /\ UNCHANGED <<lockRest, lock, envTables, faults, envLock, connLock, lockHist>>

\* start() step 3: the sources are subscribed and their threads started
LkSubscribe ==
    /\ lockThr["ctl"].pc = "subscribe"
    /\ lockThr' = [t \in LockThreads |->
                     IF t \in AllSources THEN LockAt("loop", "none", 1)
                     ELSE IF t = "ctl" THEN LockAt("started", "none", 0)
                     ELSE lockThr[t]]
    /\ UNCHANGED <<lockRest, running, lock, onTickComplete, envTables, faults,
                   envLock, connLock, lockHist>>

\* stop(): the flag is cleared; unsubscribe joins with a timeout and takes
\* no lock
LkStop ==
    /\ lockThr["ctl"].pc = "started"
    /\ running' = FALSE
    /\ lockThr' = [lockThr EXCEPT !["ctl"].pc = "stopped"]
    /\ UNCHANGED <<lockRest, lock, onTickComplete, envTables, faults, envLock,
                   connLock, lockHist>>

\* the source hands its next message to _on_message, or has none left
LkDeliver(s) ==
    /\ lockThr[s].pc = "loop"
    /\ lockThr' = [lockThr EXCEPT ![s] =
                     IF lockThr[s].msg > MaxMsgs THEN LockAt("done", "none", 0)
                     ELSE LockAt("check", "none", lockThr[s].msg)]
    /\ UNCHANGED <<lockRest, running, lock, onTickComplete, envTables, faults,
                   envLock, connLock, lockHist>>

\* _on_message: "if not self._running: return", else on to "with self._lock"
LkCheck(s) ==
    /\ lockThr[s].pc = "check"
    /\ lockThr' = [lockThr EXCEPT ![s] =
                     IF HandlerReturns
                     THEN LockAt("loop", "none", lockThr[s].msg + 1)
                     ELSE LockAt("exec_wait", "none", lockThr[s].msg)]
    /\ UNCHANGED <<lockRest, running, lock, onTickComplete, envTables, faults,
                   envLock, connLock, lockHist>>

\* "with self._lock:" entered
LkExecAcquire(s) ==
    /\ lockThr[s].pc = "exec_wait"
    /\ LockAvailable(s)
    /\ lock' = s
    /\ lockThr' = [lockThr EXCEPT ![s].pc = "chain", ![s].idx = 1]
    /\ UNCHANGED <<lockRest, running, onTickComplete, envTables, faults, envLock,
                   connLock, lockHist>>

\* the chain loop calls node.execute: MockProcessNode starts with
\* env.get("counter"), or the node raises and the loop is left
LkNodeEnter(s) ==
    /\ lockThr[s].pc = "chain"
    /\ lockThr[s].idx <= Len(CounterChain[s])
    /\ \E raises \in MayRaise :
         /\ faults' = Raised(raises)
         /\ lockThr' = [lockThr EXCEPT ![s] =
                          IF raises
                          THEN [lockThr[s] EXCEPT !.tickOk = FALSE,
                                                  !.idx = Len(CounterChain[s]) + 1]
                          ELSE ToEnv(s, "get")]
    /\ UNCHANGED <<lockRest, running, lock, onTickComplete, envTables, envLock,
                   connLock, lockHist>>

\* counter["value"] += 1, first half: the value is read
LkRead(s) ==
    /\ lockThr[s].pc = "read"
    /\ lockThr' = [lockThr EXCEPT ![s].pc = "write",
                                  ![s].local = envTables["counter"]]
    /\ UNCHANGED <<lockRest, running, lock, onTickComplete, envTables, faults,
                   envLock, connLock, lockHist>>

\* counter["value"] += 1, second half: the sum is stored; env.set follows
LkWrite(s) ==
    /\ lockThr[s].pc = "write"
    /\ envTables' = EnvSet(envTables, "counter", lockThr[s].local + 1)
    /\ lockHist' = [lockHist EXCEPT !.writes = @ + 1]
    /\ lockThr' = [lockThr EXCEPT ![s] = ToEnv(s, "set")]
    /\ UNCHANGED <<lockRest, running, lock, onTickComplete, faults, envLock, connLock>>

\* the chain loop is over: the "with" block is left
LkExecRelease(s) ==
    /\ lockThr[s].pc = "chain"
    /\ lockThr[s].idx > Len(CounterChain[s])
    /\ lock' = Released(s)
    /\ lockThr' = [lockThr EXCEPT ![s].pc = "post"]
    /\ UNCHANGED <<lockRest, running, onTickComplete, envTables, faults, envLock,
                   connLock, lockHist>>

\* after the "with" block: on_tick_complete, which is on_tick of lifespan():
\* notify_data_changed(k, tick_env.list())
LkPost(s) ==
    /\ lockThr[s].pc = "post"
    /\ IF CallsBack(lockThr[s].tickOk, onTickComplete)
       THEN /\ lockHist' = [lockHist EXCEPT !.callbacks = @ + 1]
            /\ lockThr' = [lockThr EXCEPT ![s] = ToEnv(s, "list")]
       ELSE /\ lockThr' = [lockThr EXCEPT ![s] =
                             LockAt("loop", "none", lockThr[s].msg + 1)]
            /\ UNCHANGED lockHist
    /\ UNCHANGED <<lockRest, running, lock, onTickComplete, envTables, faults,
                   envLock, connLock>>

\* the handler of a dashboard socket on the event loop: it tracks or drops a
\* connection under _connections_lock, or answers a fetch with env.get
LkLoop(op) ==
    /\ lockThr["loop"].pc = "idle"
    /\ lockThr' = [lockThr EXCEPT !["loop"] =
                     IF op = "fetch" THEN ToEnv("loop", "fetched")
                     ELSE ToConn("loop", "tracked")]
    /\ UNCHANGED <<lockRest, running, lock, onTickComplete, envTables, faults,
                   envLock, connLock, lockHist>>

\* TableEnv: "with self._lock" entered
LkEnvAcquire(t) ==
    /\ lockThr[t].pc = "env_wait"
    /\ envLock = "free"
    /\ envLock' = t
    /\ lockThr' = [lockThr EXCEPT ![t].pc = "env_in"]
    /\ UNCHANGED <<lockRest, running, lock, onTickComplete, envTables, faults,
                   connLock, lockHist>>

\* where thread t goes on after the method of the TableEnv it called
AfterEnv(t) ==
    LET at == lockThr[t]
    IN CASE at.next = "init_set" -> [at EXCEPT !.pc = "subscribe", !.next = "none"]
         [] at.next = "get" ->
              [at EXCEPT !.pc = IF "counter" \in DOMAIN envTables THEN "read"
                                ELSE "chain",
                         !.idx = IF "counter" \in DOMAIN envTables THEN @ ELSE @ + 1,
                         !.next = "none"]
         [] at.next = "set" ->
              [at EXCEPT !.pc = "chain", !.idx = @ + 1, !.local = 0, !.next = "none"]
         [] at.next = "list" -> ToConn(t, "schedule")
         [] OTHER -> LockAt("idle", "none", 0)

\* TableEnv: the body of the method, and the "with" block left
LkEnvRelease(t) ==
    /\ lockThr[t].pc = "env_in"
    /\ envLock = t
    /\ envLock' = "free"
    /\ envTables' = IF lockThr[t].next = "init_set"
                    THEN EnvSet(envTables, "counter", 0) ELSE envTables
    /\ lockThr' = [lockThr EXCEPT ![t] = AfterEnv(t)]
    /\ UNCHANGED <<lockRest, running, lock, onTickComplete, faults, connLock, lockHist>>

\* "with _connections_lock" entered
LkConnAcquire(t) ==
    /\ lockThr[t].pc = "conn_wait"
    /\ connLock = "free"
    /\ connLock' = t
    /\ lockThr' = [lockThr EXCEPT ![t].pc = "conn_in"]
    /\ UNCHANGED <<lockRest, running, lock, onTickComplete, envTables, faults,
                   envLock, lockHist>>

\* "with _connections_lock" left: notify_data_changed schedules _send_all and
\* returns to the source; the socket handler goes on
LkConnRelease(t) ==
    /\ lockThr[t].pc = "conn_in"
    /\ connLock = t
    /\ connLock' = "free"
    /\ lockThr' = [lockThr EXCEPT ![t] =
                     IF t \in AllSources THEN LockAt("loop", "none", lockThr[t].msg + 1)
                     ELSE LockAt("idle", "none", 0)]
    /\ UNCHANGED <<lockRest, running, lock, onTickComplete, envTables, faults,
                   envLock, lockHist>>

LockNext ==
    \/ \E cb \in {"none", "on_tick"} : LkStart(cb)
    \/ LkSubscribe
    \/ LkStop
    \/ \E s \in AllSources : LkDeliver(s)
    \/ \E s \in AllSources : LkCheck(s)
    \/ \E s \in AllSources : LkExecAcquire(s)
    \/ \E s \in AllSources : LkNodeEnter(s)
    \/ \E s \in AllSources : LkRead(s)
    \/ \E s \in AllSources : LkWrite(s)
    \/ \E s \in AllSources : LkExecRelease(s)
    \/ \E s \in AllSources : LkPost(s)
    \/ \E op \in {"fetch", "track"} : LkLoop(op)
    \/ \E t \in LockThreads : LkEnvAcquire(t)
    \/ \E t \in LockThreads : LkEnvRelease(t)
    \/ \E t \in LockThreads : LkConnAcquire(t)
    \/ \E t \in LockThreads : LkConnRelease(t)

\* ------------------------------------------------- the batch progress stream
\* an event of the stream; the sentinel is the None that closes the queue
StreamEvent(type, node_id) == [type |-> type, node_id |-> node_id]

Sentinel == StreamEvent("sentinel", "none")

\* the nodes of the payload, in the order the batch executor runs them
RunOrder(n) == [i \in 1..n |-> i]

StreamIdle ==
    /\ streamRun = [pc |-> "idle", order |-> << >>, idx |-> 0, ret |-> "none",
                    gen |-> "none"]
    /\ eventQueue = << >>
    /\ streamOut = << >>
    /\ streamLog = << >>

\* run_pipeline_stream: the queue is made, the thread started and the
\* response handed the generator
RunPipelineStream(n) ==
    /\ streamRun.pc = "idle"
    /\ streamRun' = [pc |-> "run", order |-> RunOrder(n), idx |-> 1, ret |-> "none",
                     gen |-> "get"]
    /\ UNCHANGED <<eventQueue, streamOut, streamLog, streamRest>>

\* executor.run fails before it reaches a node (a cycle in the payload)
RunRaisesEarly ==
    /\ streamRun.pc = "run"
    /\ streamRun.idx = 1
    /\ streamRun' = [streamRun EXCEPT !.pc = "raised"]
    /\ UNCHANGED <<eventQueue, streamOut, streamLog, streamRest>>

\* a callback handed to executor.run puts its event
Emit(event) ==
    /\ eventQueue' = Append(eventQueue, event)
    /\ streamLog' = Append(streamLog, event)

\* executor.run comes to its next node: on_node_start
OnNodeStart ==
    /\ streamRun.pc = "run"
    /\ streamRun.idx <= Len(streamRun.order)
    /\ Emit(StreamEvent("node_start", streamRun.order[streamRun.idx]))
    /\ streamRun' = [streamRun EXCEPT !.pc = "node"]
    /\ UNCHANGED <<streamOut, streamRest>>

\* the node returned: on_node_done, and on to the next node
OnNodeDone ==
    /\ streamRun.pc = "node"
    /\ Emit(StreamEvent("node_done", streamRun.order[streamRun.idx]))
    /\ streamRun' = [streamRun EXCEPT !.pc = "run", !.idx = @ + 1]
    /\ UNCHANGED <<streamOut, streamRest>>

\* the node raised: on_node_error, and the run is aborted with the exception
OnNodeError ==
    /\ streamRun.pc = "node"
    /\ Emit(StreamEvent("node_error", streamRun.order[streamRun.idx]))
    /\ streamRun' = [streamRun EXCEPT !.pc = "raised"]
    /\ UNCHANGED <<streamOut, streamRest>>

\* run_in_thread: run returned, the complete event is put
RunReturned ==
    /\ streamRun.pc = "run"
    /\ streamRun.idx > Len(streamRun.order)
    /\ eventQueue' = Append(eventQueue, StreamEvent("complete", "none"))
    /\ streamRun' = [streamRun EXCEPT !.pc = "finally", !.ret = "returned"]
    /\ UNCHANGED <<streamOut, streamLog, streamRest>>

\* run_in_thread: "except Exception", the error event is put
RunExcept ==
    /\ streamRun.pc = "raised"
    /\ eventQueue' = Append(eventQueue, StreamEvent("error", "none"))
    /\ streamRun' = [streamRun EXCEPT !.pc = "finally", !.ret = "raised"]
    /\ UNCHANGED <<streamOut, streamLog, streamRest>>

\* the sentinel is left out
PutNothing(q) == q

\* run_in_thread: "finally", event_queue.put(None)
PutSentinel(q) == Append(q, Sentinel)

RunFinally ==
    /\ streamRun.pc = "finally"
    /\ eventQueue' = PutSentinel(eventQueue)
    /\ streamRun' = [streamRun EXCEPT !.pc = "end"]
    /\ UNCHANGED <<streamOut, streamLog, streamRest>>

\* event_generator: event_queue.get() blocks on an empty queue; the sentinel
\* breaks the loop, any other event is yielded
EventGenerator ==
    /\ streamRun.gen = "get"
    /\ eventQueue # << >>
    /\ eventQueue' = Tail(eventQueue)
    /\ IF Head(eventQueue) = Sentinel
       THEN /\ streamRun' = [streamRun EXCEPT !.gen = "closed"]
            /\ UNCHANGED streamOut
       ELSE /\ streamOut' = Append(streamOut, Head(eventQueue))
            /\ UNCHANGED streamRun
    /\ UNCHANGED <<streamLog, streamRest>>

\* the steps of the worker thread
RunInThread ==
    \/ RunRaisesEarly
    \/ OnNodeStart
    \/ OnNodeDone
    \/ OnNodeError
    \/ RunReturned
    \/ RunExcept
    \/ RunFinally

StreamNext ==
    \/ \E n \in 0..MaxRunNodes : RunPipelineStream(n)
    \/ RunInThread
    \/ EventGenerator

AuxIdle ==
    /\ RegIdle /\ EnvIdle /\ DashIdle /\ QueryIdle /\ SchedIdle /\ JobIdle
    /\ LockIdle /\ StreamIdle

\* the calls a caller can make: the operation and its arguments
EnvCalls ==
    {[op |-> "set", name |-> n, val |-> v] : n \in TableNames, v \in TableValues}
    \cup {[op |-> o, name |-> n, val |-> 0] : o \in {"get", "drop"}, n \in TableNames}
    \cup {[op |-> o, name |-> "none", val |-> 0] : o \in {"list", "clear"}}

\* a caller enters an operation and reaches its "with self._lock"
EnvEnter(t, c) ==
    /\ envCall[t].pc = "idle"
    /\ envCall[t].n < MaxEnvCalls
    /\ envCall' = [envCall EXCEPT ![t] =
                     [pc |-> "wait", op |-> c.op, name |-> c.name, val |-> c.val,
                      floor |-> Len(envEffects), ret |-> NoReturn,
                      n |-> envCall[t].n + 1]]
    /\ UNCHANGED <<execVars, pubVars, envRest, envLock, envEffects>>

\* self._lock.__enter__()
EnvAcquire(t) ==
    /\ envCall[t].pc = "wait"
    /\ envLock = "free"
    /\ envLock' = t
    /\ envCall' = [envCall EXCEPT ![t].pc = "locked"]
    /\ UNCHANGED <<execVars, pubVars, envRest, envEffects>>

\* the caller holds the lock and its operation is op
EnvIn(t, op) == envCall[t].pc = "locked" /\ envCall[t].op = op /\ envLock = t

\* the body is done and has returned or raised ret
EnvBodyDone(t, ret) == envCall' = [envCall EXCEPT ![t].pc = "exit", ![t].ret = ret]

\* TableEnv.set
CallSet(t) ==
    /\ EnvIn(t, "set")
    /\ envTables' = EnvSet(envTables, envCall[t].name, envCall[t].val)
    /\ envEffects' = Append(envEffects,
                            [op |-> "set", name |-> envCall[t].name, val |-> envCall[t].val])
    /\ EnvBodyDone(t, NoReturn)
    /\ UNCHANGED <<execRest, pubVars, envRest, envLock>>

\* TableEnv.get
CallGet(t) ==
    /\ EnvIn(t, "get")
    /\ EnvBodyDone(t, IF TableEnvHas(envTables, envCall[t].name)
                        THEN [NoReturn EXCEPT !.val = envTables[envCall[t].name]]
                        ELSE [NoReturn EXCEPT !.exc = "KeyError"])
    /\ UNCHANGED <<execVars, pubVars, envRest, envLock, envEffects>>

\* TableEnv.drop
CallDrop(t) ==
    /\ EnvIn(t, "drop")
    /\ envTables' = TableEnvDrop(envTables, envCall[t].name)
    /\ envEffects' = Append(envEffects,
                            [op |-> "drop", name |-> envCall[t].name, val |-> 0])
    /\ EnvBodyDone(t, NoReturn)
    /\ UNCHANGED <<execRest, pubVars, envRest, envLock>>

\* TableEnv.list
CallList(t) ==
    /\ EnvIn(t, "list")
    /\ EnvBodyDone(t, [NoReturn EXCEPT !.names = TableEnvList(envTables)])
    /\ UNCHANGED <<execVars, pubVars, envRest, envLock, envEffects>>

\* TableEnv.clear
CallClear(t) ==
    /\ EnvIn(t, "clear")
    /\ envTables' = EmptyDict
    /\ envEffects' = Append(envEffects, [op |-> "clear", name |-> "none", val |-> 0])
    /\ EnvBodyDone(t, NoReturn)
    /\ UNCHANGED <<execRest, pubVars, envRest, envLock>>

\* self._lock.__exit__(), on a return and on a raise, and the call is over
EnvExit(t) ==
    /\ envCall[t].pc = "exit"
    /\ envLock = t
    /\ envLock' = "free"
    /\ envCall' = [envCall EXCEPT ![t] = CallIdle(envCall[t].n)]
    /\ UNCHANGED <<execVars, pubVars, envRest, envEffects>>

EnvNext ==
    \/ \E t \in Callers, c \in EnvCalls : EnvEnter(t, c)
    \/ \E t \in Callers : EnvAcquire(t)
    \/ \E t \in Callers : CallSet(t)
    \/ \E t \in Callers : CallGet(t)
    \/ \E t \in Callers : CallDrop(t)
    \/ \E t \in Callers : CallList(t)
    \/ \E t \in Callers : CallClear(t)
    \/ \E t \in Callers : EnvExit(t)

\* the publish layer but for the registry
pubRest == <<store, executors, req, boot, connections, sent, nTicks, nReqs, nConns, resp>>

\* the record of one more call of the registry
RegCalled(op, k, env, ex, ret, list) ==
    [regHist EXCEPT !.op = op, !.key = k, !.env = env, !.executor = ex,
                    !.ret = ret, !.list = list, !.calls = @ + 1]

\* registry.register(k, env, ex)
RegRegister(k, env, ex) ==
    /\ regHist.calls < MaxRegCalls
    /\ pubRegistry' = RegistryRegister(pubRegistry, k, env, ex)
    /\ regHist' = [RegCalled("register", k, env, ex, NoEntry, <<>>)
                     EXCEPT !.registers = @ + 1,
                            !.added = @ + (IF RegistryHas(pubRegistry, k) THEN 0 ELSE 1)]
    /\ UNCHANGED <<execVars, pubRest, regRest>>

\* registry.unregister(k)
RegUnregister(k) ==
    /\ regHist.calls < MaxRegCalls
    /\ pubRegistry' = RegistryUnregister(pubRegistry, k)
    /\ regHist' = [RegCalled("unregister", k, 0, 0, RegistryGet(pubRegistry, k), <<>>)
                     EXCEPT !.removed = @ + (IF RegistryHas(pubRegistry, k) THEN 1 ELSE 0)]
    /\ UNCHANGED <<execVars, pubRest, regRest>>

\* registry.get(k)
RegGet(k) ==
    /\ regHist.calls < MaxRegCalls
    /\ regHist' = RegCalled("get", k, 0, 0, RegistryGet(pubRegistry, k), <<>>)
    /\ UNCHANGED <<execVars, pubRest, pubRegistry, regRest>>

\* registry.list_running()
RegListRunning ==
    /\ regHist.calls < MaxRegCalls
    /\ regHist' = RegCalled("list_running", "none", 0, 0, NoEntry, ListRunning(pubRegistry))
    /\ UNCHANGED <<execVars, pubRest, pubRegistry, regRest>>

RegNext ==
    \/ \E k \in Keys, env \in 1..MaxEnvs, ex \in 1..MaxEnvs : RegRegister(k, env, ex)
    \/ \E k \in Keys : RegUnregister(k)
    \/ \E k \in Keys : RegGet(k)
    \/ RegListRunning

\* ------------------------------------------- ws_dashboard: subscribe, fetch
WidgetIds == {"w1", "w2"}

\* the view parameters a subscribe message can carry: msg.get("page", 0) and
\* msg.get("page_size", 50) are stored as they come; sort and filters are
\* stored with them and the raw dict path of _query_table never reads them
Views ==
    {[table |-> "t1", page |-> 0, page_size |-> 2],
     [table |-> "t2", page |-> 1, page_size |-> 1],
     [table |-> "t1", page |-> -1, page_size |-> 0]}

\* the raw dict tables of the dashboard tests
RawTable(name) ==
    IF name = "t1" THEN [rows |-> <<1, 2, 3>>, columns |-> <<"x">>, total |-> 3]
    ELSE [rows |-> <<4, 5>>, columns |-> <<"x">>, total |-> 2]

\* an index of a slice of a list of n elements, as Python clamps it
SliceIndex(i, n) ==
    IF i < 0 THEN (IF i + n < 0 THEN 0 ELSE i + n)
    ELSE (IF i > n THEN n ELSE i)

SliceInclusive(rows, start, end) ==
    LET lo == SliceIndex(start, Len(rows))
        hi == SliceIndex(end + 1, Len(rows))
    IN IF lo < hi THEN SubSeq(rows, lo + 1, hi) ELSE <<>>

\* rows[start:end]
Slice(rows, start, end) ==
    LET lo == SliceIndex(start, Len(rows))
        hi == SliceIndex(end, Len(rows))
    IN IF lo < hi THEN SubSeq(rows, lo + 1, hi) ELSE <<>>

\* _query_table on a raw dict
QueryTable(table_data, page, page_size) ==
    LET start == page * page_size
        end == start + page_size
    IN [rows |-> Slice(table_data.rows, start, end),
        columns |-> table_data.columns,
        total |-> table_data.total]

\* the raw dict tables _query_table is called with: up to MaxRows rows, all
\* different, and a stored total that is the number of rows or another number
QueryTables ==
    {[rows |-> [i \in 1..n |-> 6 + i], columns |-> <<"x">>, total |-> t] :
        n \in 0..MaxRows, t \in 0..MaxRows + 1}

\* _query_table(table_data, page, page_size, sort, filters) is entered; a
\* subscribe message is stored as it comes, so that page and page_size are
\* any integers
QueryInit ==
    query \in {[pc |-> "call", table_data |-> t, page |-> pg, page_size |-> sz,
                result |-> [rows |-> <<>>, columns |-> <<>>, total |-> 0]] :
                  t \in QueryTables, pg \in (-1)..MaxPage, sz \in (-1)..MaxPageSize}

\* _query_table returns
QueryCall ==
    /\ query.pc = "call"
    /\ query' = [query EXCEPT !.pc = "done",
                              !.result = QueryTable(query.table_data, query.page,
                                                    query.page_size)]
    /\ UNCHANGED <<execVars, pubVars, fnRest>>

\* {"event": "subscribed", "widget_id": w}
Subscribed(w) == Event("subscribed", w, <<>>)

\* {"event": "error", "error": "Widget <w> not subscribed"}
NotSubscribed(w) == Event("error", "none", <<"Widget", w, "not subscribed">>)

\* {"event": "error", "error": "Table '<t>' not found"}
TableNotFound(t) == Event("error", "none", <<"Table", t, "not found">>)

\* {"event": "page", "widget_id": w, **result}
Page(w, result) ==
    [Event("page", w, <<>>) EXCEPT !.rows = result.rows, !.columns = result.columns,
                                  !.total = result.total]

\* messages received so far: each one is answered with one event
RECURSIVE WsMsgs(_)
WsMsgs(n) == IF n = 0 THEN 0 ELSE Len(sent[n]) + WsMsgs(n - 1)

\* the handler of socket c, opened for key k, is in its receive loop
WsOpen(c, k) ==
    /\ k \in DOMAIN connections
    /\ c \in DOMAIN connections[k]
    /\ WsMsgs(MaxSockets) < MaxWsMsgs

StoreViewOnce(views, w, v) == IF w \in DOMAIN views THEN views ELSE (w :> v) @@ views

\* _connections[pipeline_key][ws][widget_id] = {...}
StoreView(views, w, v) == (w :> v) @@ views

\* action == "subscribe"
WsSubscribe(c, k, w, v) ==
    /\ WsOpen(c, k)
    /\ connections' = [connections EXCEPT ![k][c] = StoreView(@, w, v)]
    /\ sent' = [sent EXCEPT ![c] = Append(@, Subscribed(w))]
    /\ UNCHANGED <<auxVars, execVars, store, pubRegistry, executors, req, boot, nTicks,
                   nReqs, nConns, resp>>

FetchErrorCloses(conns, k, c) == [conns EXCEPT ![k] = [x \in DOMAIN @ \ {c} |-> @[x]]]

\* "continue" after the error event of a fetch: the loop goes on
FetchErrorContinues(conns, k, c) == conns

\* action == "fetch"; env is the TableEnv of the entry the socket connected to
WsFetch(c, k, w) ==
    /\ WsOpen(c, k)
    /\ LET views == connections[k][c]
       IN IF w \notin DOMAIN views
          THEN /\ sent' = [sent EXCEPT ![c] = Append(@, NotSubscribed(w))]
               /\ connections' = FetchErrorContinues(connections, k, c)
          ELSE IF ~TableEnvHas(envTables, views[w].table)
          THEN /\ sent' = [sent EXCEPT ![c] = Append(@, TableNotFound(views[w].table))]
               /\ connections' = FetchErrorContinues(connections, k, c)
          ELSE /\ sent' = [sent EXCEPT ![c] = Append(@,
                             Page(w, QueryTable(envTables[views[w].table],
                                                views[w].page, views[w].page_size)))]
               /\ UNCHANGED connections
    /\ UNCHANGED <<auxVars, execVars, store, pubRegistry, executors, req, boot, nTicks,
                   nReqs, nConns, resp>>

\* registry.register(key, env, executor=None), once, by the owner of the env
DashRegister == regHist.registers = 0 /\ RegRegister("p/a", 1, 0)

\* registry.unregister(key) of the registered key, as unpublish_pipeline and
\* the dashboard tests do; the env and its tables are left as they are
DashUnregister == RegistryHas(pubRegistry, "p/a") /\ RegUnregister("p/a")

\* notify_data_changed(k, tables): the sockets of the key are listed under
\* the lock and _send_all is scheduled on the event loop, unless there is no
\* socket or no event loop was captured
DashNotify(k) ==
    /\ Len(notifying) < MaxPending
    /\ WsMsgs(MaxSockets) < MaxWsMsgs
    /\ LET ws_list == NotifyTargets(k)
       IN notifying' = IF ws_list = {} \/ nConns = 0 THEN notifying
                       ELSE Append(notifying, [key |-> k, targets |-> ws_list])
    /\ UNCHANGED <<execVars, pubVars, dashRest>>

SendDeliveredAlways(conns, c) == TRUE

\* await ws.send_json(msg) reaches a socket whose handler is in its loop; on
\* a closed socket it raises, and _send_all drops the exception
SendDelivered(conns, c) == \E k \in DOMAIN conns : c \in DOMAIN conns[k]

\* _send_all: the next socket of the list, in connection order
DashSend ==
    /\ notifying # <<>>
    /\ LET n == Head(notifying)
           c == CHOOSE x \in n.targets : \A y \in n.targets : x <= y
       IN /\ sent' = [sent EXCEPT ![c] = IF SendDelivered(connections, c)
                                         THEN Append(@, DataChanged) ELSE @]
          /\ notifying' = IF n.targets = {c} THEN Tail(notifying)
                          ELSE <<[n EXCEPT !.targets = @ \ {c}]>> \o Tail(notifying)
    /\ UNCHANGED <<execVars, dashRest, store, pubRegistry, executors, req, boot,
                   connections, nTicks, nReqs, nConns, resp>>

\* env.set(name, {"rows": ..., "columns": ..., "total": ...})
DashEnvSet(name) ==
    /\ envTables' = EnvSet(envTables, name, RawTable(name))
    /\ UNCHANGED <<auxVars, execRest, pubVars>>

\* ------------------------------------------------------------ specification
\* the executor and its source threads
Init == ExecInit /\ PubIdle /\ AuxIdle

Next ==
    \/ StartRejected
    \/ \E cb \in {"none", "on_tick"}, ie \in {"none", "on_init_error"} :
          StartEnter(cb, ie, Pipeline)
    \/ StartInitNode
    \/ StartChain
    \/ \E s \in AllSources : StartSubscribe(s)
    \/ StartReturn
    \/ StopEnter
    \/ StopUnsubscribe
    \/ StopClear
    \/ \E s \in AllSources : SourceLoop(s)
    \/ \E s \in AllSources : OnMessageCheck(s)
    \/ \E s \in AllSources : OnMessageAcquire(s)
    \/ \E s \in AllSources : OnMessageNode(s)
    \/ \E s \in AllSources : OnMessageRelease(s)
    \/ \E s \in AllSources : OnMessagePost(s)

Spec == Init /\ [][Next]_vars

\* the publish lifecycle: restore at boot, publish and unpublish requests,
\* the ticks of the published executors and the dashboard sockets
PubSpecInit == ExecInit /\ PubInit /\ AuxIdle

PubNext ==
    \/ \E k \in Keys : Restore(k)
    \/ BootDone
    \/ \E r \in 1..MaxWorkers, k \in Keys : PublishCheck(r, k)
    \/ \E r \in 1..MaxWorkers : PublishSave(r)
    \/ \E r \in 1..MaxWorkers : PublishStart(r)
    \/ \E r \in 1..MaxWorkers : PublishRegister(r)
    \/ \E r \in 1..MaxWorkers, k \in Keys : UnpublishUnregister(r, k)
    \/ \E r \in 1..MaxWorkers : UnpublishStop(r)
    \/ \E r \in 1..MaxWorkers : UnpublishSave(r)
    \/ \E e \in 1..Len(executors) : PubTickBody(e)
    \/ \E e \in 1..Len(executors) : PubTickCallback(e)
    \/ \E c \in 1..MaxConns, k \in Keys : WsConnect(c, k)
    \/ \E c \in 1..MaxConns, k \in Keys : WsDisconnect(c, k)

PubSpec == PubSpecInit /\ [][PubNext]_vars

\* start() on pipelines of every shape: three init nodes and two processing
\* nodes with any set of edges among the init nodes and among the processing
\* nodes, each source wired to one processing node
EdgeCandidates ==
    << [source |-> "init1", target |-> "init2"], [source |-> "init2", target |-> "init1"],
       [source |-> "init2", target |-> "init3"], [source |-> "init3", target |-> "init2"],
       [source |-> "init1", target |-> "init3"], [source |-> "init3", target |-> "init1"],
       [source |-> "acc1", target |-> "acc2"], [source |-> "acc2", target |-> "acc1"] >>

GraphPipelines ==
    {[nodes |-> Append(Pipeline.nodes,
                       [id |-> "init3", type |-> "setup_node", config |-> <<>>]),
      edges |-> SelectSeq(EdgeCandidates, LAMBDA e : e \in es)
                \o << [source |-> "src1", target |-> "acc1"],
                       [source |-> "src2", target |-> "acc2"] >>] :
        es \in SUBSET SeqToSet(EdgeCandidates)}

GraphNext ==
    \/ StartRejected
    \/ \E cb \in {"none", "on_tick"}, ie \in {"none", "on_init_error"},
          p \in GraphPipelines : StartEnter(cb, ie, p)
    \/ StartInitNode
    \/ StartChain
    \/ \E s \in AllSources : StartSubscribe(s)
    \/ StartReturn
    \/ StopEnter
    \/ StopUnsubscribe
    \/ StopClear

GraphSpec == Init /\ [][GraphNext]_vars

\* ticks on pipelines of every shape: an init node wired into the processing
\* chain, three processing nodes p1, p2, p3, src1 wired to p1 and src2 to p3,
\* and any subset of four more edges. The config of p1 names the subset.
TickEdgeCandidates ==
    << [source |-> "p2", target |-> "p3"], [source |-> "p1", target |-> "p3"],
       [source |-> "p1", target |-> "p2"], [source |-> "src2", target |-> "p2"] >>

TickPipelines ==
    {[nodes |-> << [id |-> "init1", type |-> "setup_node", config |-> <<>>],
                   Pipeline.nodes[3], Pipeline.nodes[4],
                   [id |-> "p1", type |-> "probe", config |-> [label |-> es]],
                   [id |-> "p2", type |-> "probe", config |-> <<>>],
                   [id |-> "p3", type |-> "probe", config |-> <<>>] >>,
      edges |-> << [source |-> "init1", target |-> "p2"],
                   [source |-> "src1", target |-> "p1"],
                   [source |-> "src2", target |-> "p3"] >>
                \o SelectSeq(TickEdgeCandidates, LAMBDA e : e \in es)] :
        es \in SUBSET SeqToSet(TickEdgeCandidates)}

\* BaseNode.execute of a processing node that leaves the env alone: its
\* output has a key all such nodes share and a key of its own, and tells
\* the tick it was computed in
ProbeExecute(n, s, m) == ("val" :> <<n, s, m>>) @@ (n :> <<s, m>>)

\* one iteration of the chain loop on such a node: the inputs are built,
\* node.execute returns or raises, the output is kept for the tick
TickNode(s) ==
    /\ thr[s].pc = "tick"
    /\ Remaining(s) # {}
    /\ LET j == CHOOSE k \in Remaining(s) : \A m \in Remaining(s) : k <= m
           n == chainOrder[j]
           output == ProbeExecute(n, s, thr[s].msg)
       IN \E raises \in MayRaise :
            /\ faults' = Raised(raises)
            /\ execLog' = Append(execLog, [src |-> s, msg |-> thr[s].msg,
                                           node |-> n, ok |-> ~raises,
                                           inputs |-> TickInputs(s, n),
                                           output |-> IF raises THEN EmptyDict
                                                      ELSE output])
            /\ thr' = IF raises
                      THEN [thr EXCEPT ![s].tickOk = FALSE,
                                       ![s].idx = AfterRaise(j),
                                       ![s].outputs = EmptyDict,
                                       ![s].span = SpanAfter(@)]
                      ELSE [thr EXCEPT ![s].idx = j + 1,
                                       ![s].outputs = (n :> output) @@ @,
                                       ![s].span = SpanAfter(@)]
    /\ UNCHANGED <<auxVars, pubVars, running, sources, envTables, onTickComplete,
                   chainVars, lock, srcRunning, ctl, cbCount, tickState, unsubCount,
                   initHist>>

TickNext ==
    \/ \E p \in TickPipelines : StartEnter("none", "none", p)
    \/ StartInitNode
    \/ StartChain
    \/ \E s \in AllSources : StartSubscribe(s)
    \/ StartReturn
    \/ \E s \in AllSources : SourceLoop(s)
    \/ \E s \in AllSources : OnMessageCheck(s)
    \/ \E s \in AllSources : OnMessageAcquire(s)
    \/ \E s \in AllSources : TickNode(s)
    \/ \E s \in AllSources : OnMessageRelease(s)
    \/ \E s \in AllSources : OnMessagePost(s)

TickSpec == Init /\ [][TickNext]_vars

\* one pipeline registered with its env, as the dashboard tests do, the
\* tables of that env being set, and the sockets of the dashboards
DashNext ==
    \/ DashRegister
    \/ \E name \in {"t1", "t2"} : DashEnvSet(name)
    \/ \E c \in 1..MaxSockets, k \in Keys : WsConnect(c, k)
    \/ \E c \in 1..MaxSockets, k \in Keys, w \in WidgetIds, v \in Views :
           WsSubscribe(c, k, w, v)
    \/ \E c \in 1..MaxSockets, k \in Keys, w \in WidgetIds : WsFetch(c, k, w)
    \/ \E c \in 1..MaxSockets, k \in Keys : WsDisconnect(c, k)

DashSpec == Init /\ [][DashNext]_vars

\* the view the widgets of LiveSpec subscribe with
LiveView == [table |-> "t1", page |-> 0, page_size |-> 2]

\* the dashboards of a pipeline that is notified of its ticks and is
\* unregistered while sockets are connected
LiveNext ==
    \/ DashRegister
    \/ DashUnregister
    \/ \E k \in Keys : DashNotify(k)
    \/ DashSend
    \/ DashEnvSet("t1")
    \/ \E c \in 1..MaxSockets, k \in Keys : WsConnect(c, k)
    \/ \E c \in 1..MaxSockets, k \in Keys, w \in WidgetIds : WsSubscribe(c, k, w, LiveView)
    \/ \E c \in 1..MaxSockets, k \in Keys, w \in WidgetIds : WsFetch(c, k, w)
    \/ \E c \in 1..MaxSockets, k \in Keys : WsDisconnect(c, k)

LiveSpec == Init /\ [][LiveNext]_vars

\* the scheduler is started and the pipelines are saved, each save syncing
\* the schedule of its key
SchedSpec == Init /\ [][SchedNext]_vars

\* the source threads, the event loop and the controller of one executor,
\* each step of theirs that takes or leaves a lock
LockSpec == Init /\ [][LockNext]_vars

\* one run-stream request: the worker thread and the generator of the
\* response both run until they are done
StreamSpec ==
    /\ Init
    /\ [][StreamNext]_vars
    /\ WF_vars(RunInThread)
    /\ WF_vars(EventGenerator)

\* the cron library fires the jobs of the keys
JobSpec == Init /\ [][JobNext]_vars

\* _query_table called on any table with any page and page size
QuerySpecInit ==
    /\ ExecInit /\ PubIdle /\ RegIdle /\ EnvIdle /\ DashIdle /\ SchedIdle /\ JobIdle
    /\ LockIdle /\ StreamIdle /\ QueryInit

QuerySpec == QuerySpecInit /\ [][QueryCall]_vars

\* the callers of one TableEnv, each making one call after another
EnvSpec == Init /\ [][EnvNext]_vars

\* register, unregister, get and list_running called in any order
RegSpec == Init /\ [][RegNext]_vars

\* ===================================================================== claims
\* the entries of execLog that belong to the tick of message m of source s
TickEntries(s, m) == SelectSeq(execLog, LAMBDA e : e.src = s /\ e.msg = m)

SameTick(a, b) == a.src = b.src /\ a.msg = b.msg

\* C1: at most one tick body is in progress at any time: two source threads
\* are never both inside the "with self._lock" block, the thread inside it
\* holds the lock, and no node of one tick is executed between the first and
\* the last node of another tick (the calls of one tick are contiguous in
\* the order of execution).
C1_TicksSerialized ==
    /\ \A s, t \in AllSources :
         (thr[s].pc = "tick" /\ thr[t].pc = "tick") => s = t
    /\ \A s \in AllSources : thr[s].pc = "tick" => lock = s
    /\ \A i, j, k \in 1..Len(execLog) :
         (i < j /\ j < k /\ SameTick(execLog[i], execLog[k]))
            => SameTick(execLog[i], execLog[j])

\* one source is half way through its tick while the other source has
\* delivered a message and waits for the lock; both have ticks in the log
C1_Witness ==
    /\ thr["src1"].pc = "tick"
    /\ thr["src1"].idx = 2
    /\ Remaining("src1") # {}
    /\ thr["src2"].pc = "acquire"
    /\ \E i \in 1..Len(execLog) : execLog[i].src = "src2"

\* the "tick" value of message i of source s
TickValue(s, i) == Message(s, i)["tick"]

\* env["ticks"] as the accumulators have built it
EnvTicks == IF "ticks" \in DOMAIN envTables THEN envTables["ticks"] ELSE <<>>

\* the values in env["ticks"] that came from source s, in list order
TicksOf(s) ==
    SelectSeq(EnvTicks, LAMBDA v : \E i \in 1..MaxMsgs : v = TickValue(s, i))

MsgIndex(s, v) == CHOOSE i \in 1..MaxMsgs : v = TickValue(s, i)

TickDone(s, m) == tickState[<<s, m>>] \in {"ok", "ok_callback_raised"}

\* C2: the messages of one source are processed in the order the source
\* delivered them: the node calls of a source appear in the log by
\* ascending message, the values a source contributed to env["ticks"] are
\* in delivery order, and once all ticks of a source have succeeded its
\* values in env["ticks"] are exactly its messages in order (for the source
\* emitting 0..n-1: [0, ..., n-1]).
C2_PerSourceOrder ==
    /\ \A i, j \in 1..Len(execLog) :
         (i < j /\ execLog[i].src = execLog[j].src)
            => execLog[i].msg <= execLog[j].msg
    /\ \A s \in AllSources :
         \A a, b \in 1..Len(TicksOf(s)) :
            a < b => MsgIndex(s, TicksOf(s)[a]) < MsgIndex(s, TicksOf(s)[b])
    /\ \A s \in AllSources :
         (\A m \in 1..MaxMsgs : TickDone(s, m))
            => TicksOf(s) = [m \in 1..MaxMsgs |-> TickValue(s, m)]

\* both sources have delivered all their messages, interleaved, and every
\* tick succeeded
C2_Witness ==
    /\ \A s \in AllSources : \A m \in 1..MaxMsgs : TickDone(s, m)
    /\ Len(EnvTicks) >= 2 * MaxMsgs
    /\ EnvTicks[1] = TickValue("src2", 1)
    /\ EnvTicks[2] = TickValue("src1", 1)

\* the nodes a tick of source s has to execute
ReachableNodes == SourceReachable(Pipeline)

MustRun(s) == ReachableNodes[s]

EntryNodes(es) == {es[i].node : i \in 1..Len(es)}

AllOk(es) == \A i \in 1..Len(es) : es[i].ok

\* the step of thread s that leaves the handler after a tick body
PostStep(s) == thr[s].pc = "post" /\ thr'[s] # thr[s]

C3_Calls ==
    \A s \in AllSources : \A m \in 1..MaxMsgs :
       LET es == TickEntries(s, m)
           st == tickState[<<s, m>>]
       IN /\ cbCount[<<s, m>>] <= 1
          /\ (st \in {"ok", "ok_callback_raised"} /\ onTickComplete # "none")
                => cbCount[<<s, m>>] = 1
          /\ cbCount[<<s, m>>] = 1 => (AllOk(es) /\ EntryNodes(es) = MustRun(s))
          /\ ~AllOk(es) => cbCount[<<s, m>>] = 0
          /\ st = "failed" => (~AllOk(es) /\ cbCount[<<s, m>>] = 0)

C3_Step ==
    \A s \in AllSources :
       /\ \A m \in 1..MaxMsgs :
            cbCount'[<<s, m>>] > cbCount[<<s, m>>]
               => (PostStep(s) /\ thr[s].msg = m /\ lock # s)
       /\ (PostStep(s) /\ tickState'[Tid(s)] = "ok_callback_raised")
            => /\ UNCHANGED <<running, sources, srcRunning, envTables, lock>>
               /\ thr'[s] = ThreadAt("loop", thr[s].msg + 1)

\* C3: on_tick_complete is called exactly once for a tick whose reachable
\* nodes all executed without raising and not at all for a tick in which a
\* node raised; it is called only after the tick's lock has been released;
\* an exception it raises is swallowed: the executor stays running and
\* subscribed and the source thread goes on to its next message.
C3_TickCallback == [](C3_Calls /\ (\A s \in AllSources : thr[s].pc = "post" => lock # s))
                   /\ [][C3_Step]_vars

\* the callback of the first tick of a source raised and the second tick of
\* that source was processed and called back
C3_Witness ==
    /\ tickState[<<"src1", 1>>] = "ok_callback_raised"
    /\ tickState[<<"src1", 2>>] = "ok"
    /\ cbCount[<<"src1", 2>>] = 1
    /\ running

\* the step in which a node of a tick raises
NodeRaises == Len(execLog') = Len(execLog) + 1 /\ ~execLog'[Len(execLog')].ok

C4_Step ==
    /\ NodeRaises => UNCHANGED <<envTables, running, sources, srcRunning>>
    /\ \A s \in AllSources :
         (PostStep(s) /\ ~thr[s].tickOk)
            => /\ UNCHANGED <<envTables, running, sources, srcRunning, lock>>
               /\ tickState'[Tid(s)] = "failed"
               /\ thr'[s] = ThreadAt("loop", thr[s].msg + 1)
    /\ (execLog' = execLog /\ initLog' = initLog) => envTables' = envTables

\* C4: when a node raises during a tick no later node of that tick runs,
\* the env writes of the earlier nodes remain, the executor stays running
\* with its sources subscribed, and the source goes on to its next message.
C4_NodeFailure ==
    [](\A i, j \in 1..Len(execLog) :
          (i < j /\ ~execLog[i].ok) => ~SameTick(execLog[i], execLog[j]))
    /\ [][C4_Step]_vars

\* the second node of a tick raised after the first had appended to
\* env["ticks"]; the append is still there and the next message of the source
\* was processed completely
C4_Witness ==
    /\ tickState[<<"src1", 1>>] = "failed"
    /\ Len(TickEntries("src1", 1)) = 2
    /\ TickValue("src1", 1) \in SeqToSet(EnvTicks)
    /\ tickState[<<"src1", 2>>] = "ok"
    /\ EntryNodes(TickEntries("src1", 2)) = MustRun("src1")
    /\ TickValue("src1", 2) \in SeqToSet(EnvTicks)
    /\ running
    /\ Len(sources) = 2

\* the step of start() in which an init node raises
InitNodeRaises == ctl.pc = "init" /\ ctl'.last = "init_failed"

C5_Step ==
    /\ InitNodeRaises
         => /\ initErrorCalls' = IF ctl.onInitError # "none"
                                  THEN <<ctl.initOrder[ctl.initIdx]>> ELSE <<>>
            /\ initLog' = SubSeq(ctl.initOrder, 1, ctl.initIdx)
            /\ ctl'.pc = "idle"
            /\ UNCHANGED <<sources, srcRunning, thr, envTables>>
    /\ (ctl.last = "init_failed" /\ ctl'.starts = ctl.starts) => UNCHANGED initHist
    /\ (ctl.last = "init_failed" /\ ctl'.stops # ctl.stops)
         => /\ UNCHANGED <<running, sources, srcRunning, thr, envTables, lock,
                            chainVars, onTickComplete, initHist>>
            /\ ctl'.stopIdx > Len(sources')

\* C5: when an init node raises in start(), on_init_error (if given) is
\* called exactly once with that node, no later init node is executed, no
\* source is set up or subscribed, start() returns with the executor not
\* running, and a following stop() changes nothing.
C5_InitFailure ==
    []((ctl.pc = "init" \/ ctl.last = "init_failed")
          => /\ sources = <<>>
             /\ \A s \in AllSources : thr[s].pc \in {"off", "done"}
             /\ execLog = <<>>
             /\ Len(initErrorCalls) <= 1)
    /\ [](ctl.last = "init_failed" => (~running /\ ctl.pc = "idle"))
    /\ [][C5_Step]_vars

\* the first init node raised with a handler given, the second was not
\* executed, and a stop() has followed
C5_Witness ==
    /\ ctl.starts = 1
    /\ ctl.last = "stopped"
    /\ initLog = <<"init1">>
    /\ initErrorCalls = <<"init1">>
    /\ ~running
    /\ sources = <<>>
    /\ unsubCount = [s \in AllSources |-> 0]

\* the state of the executor that stop() may touch, the counts of the
\* unsubscribe calls of the current stop() included
StopVisible == <<running, sources, srcRunning, envTables, lock, chainVars,
                 onTickComplete, unsubCount>>

C9_Step ==
    /\ (ctl.pc = "idle" /\ ctl'.pc = "unsub")
         => (running' = FALSE /\ sources' = sources)
    /\ (ctl.pc = "unsub" /\ ctl'.pc = "idle")
         => /\ running' = FALSE
            /\ sources' = <<>>
            /\ \A s \in AllSources :
                  unsubCount'[s] = IF s \in SeqToSet(sources) THEN 1 ELSE 0
    /\ (ctl.pc = "idle" /\ ctl'.pc = "unsub" /\ ctl.last \in {"none", "stopped"})
         => /\ UNCHANGED <<running, sources, srcRunning, envTables, lock,
                            chainVars, onTickComplete>>
            /\ unsubCount' = [s \in AllSources |-> 0]
            /\ ctl'.stopIdx > Len(sources')
    /\ (ctl.pc = "unsub" /\ Len(sources) = 0 /\ ctl' # ctl)
         => (ctl'.last = "stopped" /\ UNCHANGED StopVisible)

\* C9: stop() sets running to false, calls unsubscribe exactly once on each
\* subscribed source even when an earlier unsubscribe raises, and empties
\* the source list; a second stop() and a stop() on an executor that was
\* never started call no unsubscribe and leave the state as it was.
C9_Stop == [](\A s \in AllSources : unsubCount[s] <= 1)
           /\ [](ctl.last \in {"none", "stopped"} => (~running /\ sources = <<>>))
           /\ [][C9_Step]_vars

\* stop() of an executor with two sources: the unsubscribe of the first
\* raised, the second was unsubscribed all the same, the loop is over
C9_Witness ==
    /\ ctl.pc = "unsub"
    /\ Len(sources) = 2
    /\ ctl.stopIdx = 3
    /\ ctl.unsubRaisedAt = 1
    /\ unsubCount = [s \in AllSources |-> 1]
    /\ ~running

C10_Ticks ==
    \A s \in AllSources : \A m \in 1..MaxMsgs :
       LET es == TickEntries(s, m)
           st == tickState[<<s, m>>]
       IN /\ st = "dropped" => (es = <<>> /\ cbCount[<<s, m>>] = 0)
          /\ TickDone(s, m) => (AllOk(es) /\ EntryNodes(es) = MustRun(s))
          /\ (st = "failed" \/ (thr[s].pc = "post" /\ thr[s].msg = m))
                => (~AllOk(es) \/ EntryNodes(es) = MustRun(s))

C10_Step ==
    \A s \in AllSources :
       /\ (thr[s].pc = "check" /\ ~running /\ thr'[s] # thr[s])
            => /\ tickState'[Tid(s)] = "dropped"
               /\ thr'[s] = ThreadAt("loop", thr[s].msg + 1)
               /\ UNCHANGED <<execLog, cbCount, envTables, lock>>
       /\ (thr[s].pc \in {"tick", "post"} /\ ctl' # ctl)
            => (thr'[s] = thr[s] /\ lock' = lock)

\* C10: stop() does not interrupt a tick in progress: the tick runs its
\* remaining reachable nodes and completes (a tick body ends only when every
\* reachable node ran or a node raised, whatever the running flag); a
\* message handed to the handler after stop() cleared the flag executes no
\* node and calls no on_tick_complete.
C10_StopDuringTick == []C10_Ticks /\ [][C10_Step]_vars

\* stop() cleared the flag between the two nodes of a tick, and the tick
\* body ran to its end without a failure; a message of the other source was
\* handed over after the flag was cleared and was dropped
C10_Witness ==
    /\ thr["src1"].pc = "post"
    /\ thr["src1"].tickOk
    /\ thr["src1"].span = "stopped"
    /\ Len(TickEntries("src1", thr["src1"].msg)) = 2
    /\ ~running
    /\ \E m \in 1..MaxMsgs : tickState[<<"src2", m>>] = "dropped"

\* C6: after a pipeline whose init node raises has been published, by the
\* publish operation or by the restore at boot, the registry does not
\* contain its key: no entry holds an executor whose start() failed in the
\* init phase.
C6_NoInitFailedEntry ==
    \A i \in 1..Len(pubRegistry) :
       executors[pubRegistry[i].executor].outcome # "init_failed"

\* the step that takes a publish or unpublish request without going on to
\* a further step of it: publish_pipeline raising its HTTPException
PublishRefused == nReqs' # nReqs /\ req' = req

C7_Step ==
    /\ \A r \in 1..MaxWorkers : \A k \in Keys :
         (req[r].pc = "free" /\ req'[r].op = "publish" /\ req'[r].key = k)
            => ~RegistryHas(pubRegistry, k)
    /\ PublishRefused
         => /\ resp'.op = "publish"
            /\ resp'.result \in {"404", "409"}
            /\ resp'.result = "409" => RegistryHas(pubRegistry, resp'.key)
            /\ (RegistryHas(pubRegistry, resp'.key) /\ store[resp'.key] # "absent")
                  => resp'.result = "409"
            /\ UNCHANGED <<store, pubRegistry, executors, connections, sent>>

\* C7: publish of a key that is in the registry fails with 409 and mutates
\* nothing: the stored pipeline, the registry and its entry are unchanged,
\* no executor is created or started, and list_running() holds each key at
\* most once (the published key exactly once).
C7_PublishConflict ==
    [](\A k \in Keys :
         Cardinality({i \in 1..Len(pubRegistry) : ListRunning(pubRegistry)[i] = k})
            = IF RegistryHas(pubRegistry, k) THEN 1 ELSE 0)
    /\ [][C7_Step]_vars

\* a publish of a registered key has just been answered with 409
C7_Witness ==
    /\ resp = Response("publish", "p/a", "409")
    /\ RegistryHas(pubRegistry, "p/a")
    /\ ListRunning(pubRegistry) = <<"p/a">>
    /\ \A r \in 1..MaxWorkers : req[r].pc = "free"

\* C8: every successful tick of a published pipeline is followed, after its
\* body, by a data_changed event to every dashboard connection registered
\* for the key at that moment: the step that ends the tick of an executor
\* appends the event to each of those connections.
C8_TickNotifies ==
    [][\A e \in 1..Len(executors) :
          (executors[e].post /\ Len(executors') = Len(executors)
             /\ ~executors'[e].post)
             => \A c \in NotifyTargets(executors[e].key) :
                   sent'[c] = Append(sent[c], DataChanged)]_vars

\* a call of start() is made
StartCalled == ctl.pc = "idle" /\ ctl'.starts = ctl.starts + 1

\* C11: start() on a running executor raises and changes nothing: the env,
\* the on_tick_complete callback, the precomputed chain and the subscribed
\* sources are as before the call, the flag stays set and no init node is
\* executed.
C11_StartWhileRunning ==
    [][(StartCalled /\ running)
         => /\ ctl' = CtlIdle(ctl.starts + 1, ctl.stops, "raised_already_running")
            /\ UNCHANGED <<running, sources, srcRunning, envTables, onTickComplete,
                           chainVars, lock, thr, initHist, tickHist>>]_vars

\* start() was called on a running executor with both sources subscribed
\* and ticks already processed
C11_Witness ==
    /\ ctl.last = "raised_already_running"
    /\ running
    /\ Len(sources) = 2
    /\ Len(execLog) > 0
    /\ Len(initLog) = 2

\* C12: when a source's setup() or subscribe() raises during start() the
\* failure is treated like an init failure: start() returns with the
\* executor not running and no source left subscribed, the sources
\* subscribed earlier in the same start() included.
C12_SourceErrorAsInitError ==
    ctl.last = "raised_source"
       => (~running /\ sources = <<>> /\ \A s \in AllSources : thr[s].pc \in {"off", "done"})

\* the edges of a pipeline among the nodes ids, as pairs
EdgePairs(ids, edges) ==
    {<<edges[i].source, edges[i].target>> : i \in 1..Len(edges)} \cap (ids \X ids)

\* some node of ids lies on a cycle of the edges among ids
HasCycle(ids, edges) ==
    \E k \in 1..Cardinality(ids) : \E f \in [1..(k + 1) -> ids] :
       /\ f[1] = f[k + 1]
       /\ \A i \in 1..k : <<f[i], f[i + 1]>> \in EdgePairs(ids, edges)

\* order holds every node of ids once, each edge's source before its target
ValidOrder(order, ids, edges) ==
    /\ Len(order) = Cardinality(ids)
    /\ SeqToSet(order) = ids
    /\ \A i, j \in 1..Len(order) :
         <<order[i], order[j]>> \in EdgePairs(ids, edges) => i < j

InitCyclic(p) == HasCycle(InitIdsOf(p), p.edges)

ChainCyclic(p) == HasCycle(ProcessingIdsOf(p), p.edges)

\* C13: start() on a pipeline whose init subgraph or processing subgraph has
\* a cycle raises the cycle error, with no node of the cyclic subgraph
\* executed and no source subscribed, and raises it for no other pipeline;
\* on an acyclic subgraph the computed order is a valid linearization
\* (every node once, every edge's source before its target).
C13_CycleOrLinearization ==
    /\ ctl.last = "raised_cycle"
         => /\ InitCyclic(ctl.pipeline) \/ ChainCyclic(ctl.pipeline)
            /\ InitCyclic(ctl.pipeline) => initLog = <<>>
            /\ execLog = <<>>
            /\ sources = <<>>
            /\ \A s \in AllSources : thr[s].pc \in {"off", "done"}
    /\ ctl.pc \in {"init", "chain", "subscribe"}
         => /\ ~InitCyclic(ctl.pipeline)
            /\ ctl.pc = "subscribe" \/ sources = <<>>
    /\ ctl.pc = "init"
         => ValidOrder(ctl.initOrder, InitIdsOf(ctl.pipeline), ctl.pipeline.edges)
    /\ ctl.pc = "subscribe"
         => /\ ~ChainCyclic(ctl.pipeline)
            /\ ValidOrder(chainOrder, ProcessingIdsOf(ctl.pipeline),
                          ctl.pipeline.edges)

\* the three init nodes ran in the only order their two edges allow and
\* start() then raised on the cycle of the processing subgraph
C13_Witness ==
    /\ ctl.last = "raised_cycle"
    /\ ChainCyclic(ctl.pipeline)
    /\ initLog = <<"init3", "init1", "init2">>
    /\ Cardinality(EdgePairs(InitIdsOf(ctl.pipeline), ctl.pipeline.edges)) = 2
    /\ sources = <<>>
    /\ running

\* worker r takes an unpublish request / goes from one step of it to the next
UnpublishTaken(r) == req[r].pc = "free" /\ req'[r].op = "unpublish"

UnpublishAt(r, pc) == req[r].op = "unpublish" /\ req[r].pc = pc

C14_Order ==
    \A r \in 1..MaxWorkers :
       /\ (UnpublishAt(r, "stop") \/ UnpublishAt(r, "save"))
            => \A i \in 1..Len(pubRegistry) :
                  req[r].ex = 0 \/ pubRegistry[i].executor # req[r].ex
       /\ (UnpublishAt(r, "save") /\ req[r].ex # 0)
            => (~executors[req[r].ex].running /\ ~executors[req[r].ex].subscribed)

C14_Step ==
    /\ \A r \in 1..MaxWorkers :
         /\ UnpublishTaken(r)
              => LET k == req'[r].key
                 IN /\ ~RegistryHas(pubRegistry', k)
                    /\ \A i \in 1..Len(pubRegistry) :
                          pubRegistry[i].key # k
                             => \E j \in 1..Len(pubRegistry') :
                                   pubRegistry'[j] = pubRegistry[i]
                    /\ Len(pubRegistry') =
                          Len(pubRegistry) - (IF RegistryHas(pubRegistry, k) THEN 1 ELSE 0)
                    /\ req'[r].ex = RegistryGet(pubRegistry, k).executor
                    /\ req'[r].pc = "stop"
                    /\ UNCHANGED <<executors, store>>
         /\ (UnpublishAt(r, "stop") /\ req'[r] # req[r])
              => /\ req'[r].pc = "save"
                 /\ UNCHANGED <<pubRegistry, store>>
                 /\ req[r].ex = 0 => executors' = executors
                 /\ req[r].ex # 0
                      => /\ ~executors'[req[r].ex].running
                         /\ \A e \in 1..Len(executors) :
                               e # req[r].ex => executors'[e] = executors[e]
         /\ (UnpublishAt(r, "save") /\ req'[r] # req[r])
              => /\ store'[req[r].key] \in {"unpublished", "absent"}
                 /\ resp' = Response("unpublish", req[r].key, "unpublished")
                 /\ UNCHANGED <<pubRegistry, executors>>
         /\ (req[r].op = "publish" /\ req[r].pc = "register" /\ req'[r] # req[r])
              => /\ Cardinality({i \in 1..Len(pubRegistry') :
                                    pubRegistry'[i].key = req[r].key}) = 1
                 /\ RegistryGet(pubRegistry', req[r].key).executor = req[r].ex
                 /\ executors[req[r].ex].outcome = "started"
                      => executors'[req[r].ex].running
    /\ \A k \in Keys :
         (store[k] = "published" /\ store'[k] # "published")
            => \E r \in 1..MaxWorkers : UnpublishAt(r, "save") /\ req[r].key = k

\* C14: unpublish(k) removes the registry entry first, then stops the
\* executor of that entry if there was one, then stores published=false;
\* for a key that is not registered the registry is unchanged and nothing is
\* stopped; a publish that registers leaves exactly one entry for the key,
\* holding the executor it started, which is running when its start
\* succeeded (so publish; unpublish; publish ends with one running entry).
C14_Unpublish == []C14_Order /\ [][C14_Step]_vars

\* publish(p/a); unpublish(p/a); publish(p/a): the first executor was
\* started and has been stopped, the second is running and is the one entry
C14_Witness ==
    /\ Len(executors) = 2
    /\ \A e \in 1..2 : executors[e].key = "p/a" /\ executors[e].outcome = "started"
    /\ ~executors[1].running
    /\ executors[2].running
    /\ Len(pubRegistry) = 1
    /\ pubRegistry[1].key = "p/a"
    /\ pubRegistry[1].executor = 2
    /\ store["p/a"] = "published"
    /\ resp = Response("publish", "p/a", "published")

\* a direct call of the registry is made
RegCall(op) == regHist'.calls = regHist.calls + 1 /\ regHist'.op = op

\* the entries of the keys other than k are what they were
OthersKept(k) ==
    \A k2 \in Keys \ {k} : RegistryGet(pubRegistry', k2) = RegistryGet(pubRegistry, k2)

C15_Step ==
    LET h == regHist'
    IN /\ RegCall("register")
            => /\ RegistryGet(pubRegistry', h.key) =
                     [key |-> h.key, env |-> h.env, executor |-> h.executor]
               /\ OthersKept(h.key)
       /\ RegCall("unregister")
            => /\ h.ret = RegistryGet(pubRegistry, h.key)
               /\ RegistryGet(pubRegistry', h.key) = NoEntry
               /\ \A i \in 1..Len(pubRegistry') : ListRunning(pubRegistry')[i] # h.key
               /\ OthersKept(h.key)
               /\ ~RegistryHas(pubRegistry, h.key)
                    => (h.ret = NoEntry /\ pubRegistry' = pubRegistry)
       /\ RegCall("get")
            => (h.ret = RegistryGet(pubRegistry, h.key) /\ pubRegistry' = pubRegistry)
       /\ RegCall("list_running")
            => (h.list = ListRunning(pubRegistry) /\ pubRegistry' = pubRegistry)

C16_CountsAllRegisters ==
    Len(ListRunning(pubRegistry)) = regHist.registers - regHist.removed

\* C16: len(list_running()) is the number of register calls made for a key
\* that was not registered at the call (a register of a registered key
\* overwrites its entry) minus the number of unregister calls that removed
\* an entry.
C16_CountsAddedKeys ==
    Len(ListRunning(pubRegistry)) = regHist.added - regHist.removed

\* a key was registered twice, the second call overwriting the entry, and
\* another key was registered and unregistered
C16_Witness ==
    /\ regHist.registers = 3
    /\ regHist.added = 2
    /\ regHist.removed = 1
    /\ Len(ListRunning(pubRegistry)) = 1

\* the write at position i of the history touches the name
Touches(i, name) == envEffects[i].op = "clear" \/ envEffects[i].name = name

\* what get(name) returns in the sequential history made of the first p writes
ValueAfter(name, p) ==
    LET ws == {i \in 1..p : Touches(i, name)}
    IN IF ws = {} THEN [NoReturn EXCEPT !.exc = "KeyError"]
       ELSE LET last == CHOOSE i \in ws : \A j \in ws : j <= i
            IN IF envEffects[last].op = "set"
               THEN [NoReturn EXCEPT !.val = envEffects[last].val]
               ELSE [NoReturn EXCEPT !.exc = "KeyError"]

\* the names set in the sequential history made of the first p writes
NamesAfter(p) == {n \in TableNames : ValueAfter(n, p).exc = "none"}

\* the body of a call of op by t has run and the call has not yet returned
Returning(t, op) == envCall[t].pc = "exit" /\ envCall[t].op = op

\* the positions of the history between the start of the call of t and now
CallWindow(t) == envCall[t].floor .. Len(envEffects)

C17_Linearized ==
    /\ \A n \in TableNames :
          /\ (n \in DOMAIN envTables) = (ValueAfter(n, Len(envEffects)).exc = "none")
          /\ n \in DOMAIN envTables => envTables[n] = ValueAfter(n, Len(envEffects)).val
    /\ \A t \in Callers :
          /\ Returning(t, "get")
               => /\ \E p \in CallWindow(t) : envCall[t].ret = ValueAfter(envCall[t].name, p)
                  /\ \A i \in 1..envCall[t].floor :
                        (envEffects[i].op = "set" /\ envEffects[i].name = envCall[t].name)
                        => \/ /\ envCall[t].ret.exc = "none"
                              /\ \E j \in i..Len(envEffects) :
                                    /\ envEffects[j].op = "set"
                                    /\ envEffects[j].name = envCall[t].name
                                    /\ envEffects[j].val = envCall[t].ret.val
                           \/ /\ envCall[t].ret.exc = "KeyError"
                              /\ \E j \in (i + 1)..Len(envEffects) :
                                    /\ envEffects[j].op \in {"drop", "clear"}
                                    /\ Touches(j, envCall[t].name)
          /\ Returning(t, "list")
               => /\ envCall[t].ret.names = DOMAIN envTables
                  /\ \E p \in CallWindow(t) : envCall[t].ret.names = NamesAfter(p)

C17_Step ==
    \A t \in Callers :
        LET c == envCall[t]
        IN (c.pc = "locked" /\ envCall'[t].pc = "exit")
            => /\ (c.op = "get" /\ ~TableEnvHas(envTables, c.name))
                    => (envCall'[t].ret.exc = "KeyError" /\ envTables' = envTables)
               /\ (c.op = "drop" /\ ~TableEnvHas(envTables, c.name))
                    => envTables' = envTables
               /\ c.op \in {"get", "list"} => envTables' = envTables

\* C17: the operations of a TableEnv are linearizable under concurrent
\* callers: the writes take effect one after another, each between its call
\* and its return; a get(name) returns what the sequential history of the
\* writes gives at a point between its call and its return, so a get that
\* starts after set(name, v) took effect returns v or the value of a later
\* set, or raises KeyError with a drop or clear of the name in between; get
\* of a missing name raises and changes nothing; drop of a missing name
\* changes nothing; list returns exactly the names currently set.
C17_TableEnvLinearizable == []C17_Linearized /\ [][C17_Step]_vars

\* t1 has set a to 1 and returned; t2 then started get("a"), t1 set a to 2
\* before t2 got the lock, and the get returns 2
C17_Witness ==
    /\ Len(envEffects) = 2
    /\ envEffects[1] = [op |-> "set", name |-> "a", val |-> 1]
    /\ envEffects[2] = [op |-> "set", name |-> "a", val |-> 2]
    /\ Returning("t2", "get")
    /\ envCall["t2"].name = "a"
    /\ envCall["t2"].floor = 1
    /\ envCall["t2"].n = 1
    /\ envCall["t1"].pc = "idle"
    /\ envCall["t2"].ret = [NoReturn EXCEPT !.val = 2]

\* the subscriptions of socket c under key k, none when it is not tracked
ViewsOf(conns, k, c) ==
    IF k \in DOMAIN conns /\ c \in DOMAIN conns[k] THEN conns[k][c] ELSE EmptyDict

\* the subscriptions other than that of widget w on socket c under key k are
\* what they were, and so is the set of tracked sockets
OtherViewsKept(k, c, w) ==
    /\ DOMAIN connections' = DOMAIN connections
    /\ \A k2 \in DOMAIN connections :
          /\ DOMAIN connections'[k2] = DOMAIN connections[k2]
          /\ \A c2 \in DOMAIN connections[k2] :
                IF k2 = k /\ c2 = c
                THEN \A w2 \in WidgetIds \ {w} :
                        /\ (w2 \in DOMAIN connections'[k][c]) = (w2 \in DOMAIN connections[k][c])
                        /\ w2 \in DOMAIN connections[k][c]
                             => connections'[k][c][w2] = connections[k][c][w2]
                ELSE connections'[k2][c2] = connections[k2][c2]

\* socket c alone is sent one event, e
SentOnly(c, e) ==
    \A c2 \in 1..MaxSockets :
        sent'[c2] = IF c2 = c THEN Append(sent[c], e) ELSE sent[c2]

C18_Step ==
    \A c \in 1..MaxSockets, k \in Keys, w \in WidgetIds :
        /\ \A v \in Views :
              WsSubscribe(c, k, w, v)
              => /\ connections'[k][c][w] = v
                 /\ SentOnly(c, Subscribed(w))
                 /\ OtherViewsKept(k, c, w)
        /\ (WsFetch(c, k, w) /\ w \in DOMAIN connections[k][c]
               /\ connections[k][c][w].table \in DOMAIN envTables)
              => LET v == connections[k][c][w]
                 IN SentOnly(c, Page(w, QueryTable(RawTable(v.table), v.page, v.page_size)))

\* C18: a subscribe message stores the widget's subscription for that
\* connection and is answered with a subscribed event carrying the same
\* widget_id; a subscribe for a widget_id that is subscribed replaces the
\* stored subscription, the next fetch being served with the table, page and
\* page_size stored last; the subscriptions of other widget ids and of other
\* connections are never affected.
C18_Subscribe == [][C18_Step]_vars

\* socket 1 subscribed w1, fetched the first two rows of t1, subscribed w1
\* again and fetched the second row of t2
C18_Witness ==
    /\ Len(sent[1]) = 4
    /\ sent[1][1] = Subscribed("w1")
    /\ sent[1][2] = Page("w1", [rows |-> <<1, 2>>, columns |-> <<"x">>, total |-> 3])
    /\ sent[1][3] = Subscribed("w1")
    /\ sent[1][4] = Page("w1", [rows |-> <<5>>, columns |-> <<"x">>, total |-> 2])
    /\ ViewsOf(connections, "p/a", 1) =
         ("w1" :> [table |-> "t2", page |-> 1, page_size |-> 1])

\* the fetch of widget w on socket c under key k cannot be served
FetchFails(c, k, w) ==
    \/ w \notin DOMAIN connections[k][c]
    \/ connections[k][c][w].table \notin DOMAIN envTables

C19_Step ==
    \A c \in 1..MaxSockets, k \in Keys, w \in WidgetIds :
        (WsFetch(c, k, w) /\ FetchFails(c, k, w))
        => /\ \E e \in {NotSubscribed(w)} \cup {TableNotFound(t) : t \in {"t1", "t2"}} :
                SentOnly(c, e)
           /\ connections' = connections
           /\ c \in DOMAIN connections'[k]

\* C19: a fetch for a widget_id that has no subscription on the connection,
\* or whose subscribed table is missing from the env, is answered with an
\* error event; the connection stays open and no subscription is added,
\* changed or removed, so that later subscribe and fetch messages on the
\* connection are served as on any other.
C19_FetchError == [][C19_Step]_vars

\* socket 1 fetched w1 before subscribing it, subscribed it to t1 while t1
\* was missing, fetched it, and fetched it again once t1 was set
C19_Witness ==
    /\ Len(sent[1]) = 4
    /\ sent[1][1] = NotSubscribed("w1")
    /\ sent[1][2] = Subscribed("w1")
    /\ sent[1][3] = TableNotFound("t1")
    /\ sent[1][4] = Page("w1", [rows |-> <<1, 2>>, columns |-> <<"x">>, total |-> 3])
    /\ "w1" \in DOMAIN ViewsOf(connections, "p/a", 1)

\* socket c was refused at its opening
Refused(c) == sent[c] # <<>> /\ \E k \in Keys : sent[c][1] = NotRunning(k)

C20_Step ==
    \A c \in 1..MaxSockets, k \in Keys :
        (WsConnect(c, k) /\ RegistryGet(pubRegistry, k) = NoEntry)
        => /\ SentOnly(c, NotRunning(k))
           /\ sent[c] = <<>>
           /\ connections' = connections

\* C20: a dashboard socket opened for a key that is not in the publish
\* registry is sent one error event saying the pipeline is not running and
\* is closed; no connection entry is recorded for it, and it is never sent
\* anything else, a data_changed notification in particular.
C20_UnknownKey ==
    [](\A c \in 1..MaxSockets :
          Refused(c) => /\ Len(sent[c]) = 1
                        /\ \A k \in DOMAIN connections : c \notin DOMAIN connections[k])
    /\ [][C20_Step]_vars

\* the socket was refused for p/b while p/a, published by a request, was
\* running; a message has since been delivered to a published pipeline
C20_Witness ==
    /\ sent[1] = <<NotRunning("p/b")>>
    /\ RegistryHas(pubRegistry, "p/a")
    /\ \E e \in 1..Len(executors) :
          executors[e].key = "p/a" /\ executors[e].cb = PublishCallback
    /\ nTicks >= 1

\* the handler of socket c is in its receive loop under some key
Tracked(c) == \E k \in DOMAIN connections : c \in DOMAIN connections[k]

C21_Step ==
    /\ \A c \in 1..MaxSockets, k \in Keys :
          WsDisconnect(c, k)
          => /\ \A k2 \in DOMAIN connections' : c \notin DOMAIN connections'[k2]
             /\ \A k2 \in DOMAIN connections :
                   \A c2 \in DOMAIN connections[k2] \ {c} :
                       /\ k2 \in DOMAIN connections'
                       /\ c2 \in DOMAIN connections'[k2]
                       /\ connections'[k2][c2] = connections[k2][c2]
             /\ (k \in DOMAIN connections') = (DOMAIN connections[k] # {c})
             /\ sent' = sent
    /\ \A c \in 1..nConns : ~Tracked(c) => sent'[c] = sent[c]

\* C21: when a dashboard connection closes, by a client disconnect or by an
\* error of its handler, all its widget subscriptions are removed and it is
\* sent no notification any more, not even one scheduled before it closed;
\* the subscriptions of the other connections of the key are unchanged; a
\* key has an entry in the connection map exactly while at least one
\* connection is registered for it.
C21_Close ==
    [](\A k \in DOMAIN connections : DOMAIN connections[k] # {})
    /\ [][C21_Step]_vars

\* sockets 1 and 2 were connected when notify_data_changed listed them;
\* socket 1, subscribed to two widgets, has closed before the sends
C21_Witness ==
    /\ notifying = <<[key |-> "p/a", targets |-> {1, 2}]>>
    /\ sent[1] = <<Subscribed("w1"), Subscribed("w2")>>
    /\ ~Tracked(1)
    /\ ViewsOf(connections, "p/a", 2) = ("w1" :> LiveView)

\* C22: after the pipeline of a key was unpublished, a fetch on a socket
\* connected for the key before is answered with an error event, never with
\* page data.
C22_FetchAfterUnpublish ==
    [][\A c \in 1..MaxSockets, k \in Keys, w \in WidgetIds :
         (WsFetch(c, k, w) /\ regHist.removed > 0 /\ ~RegistryHas(pubRegistry, k))
         => sent'[c][Len(sent'[c])].event = "error"]_vars

Min(a, b) == IF a < b THEN a ELSE b

Max(a, b) == IF a < b THEN b ELSE a

\* the pages 0 .. p of the table, of s rows each, one after the other
RECURSIVE PagesUpTo(_, _, _)
PagesUpTo(table_data, p, s) ==
    IF p < 0 THEN <<>>
    ELSE PagesUpTo(table_data, p - 1, s) \o QueryTable(table_data, p, s).rows

\* C23: for a row-dict table of n rows, page p >= 0 and page_size s > 0 give
\* exactly rows[p*s : p*s+s] in stored order, that is min(s, max(0, n - p*s))
\* rows, with the stored columns and the stored total; page 0 with s >= n
\* gives all n rows; the pages 0, 1, 2, ... one after the other are the rows,
\* each exactly once.
C23_Pagination ==
    (query.pc = "done" /\ query.page >= 0 /\ query.page_size > 0)
    => LET rows == query.table_data.rows
           n == Len(rows)
           p == query.page
           sz == query.page_size
           cnt == Min(sz, Max(0, n - p * sz))
       IN /\ query.result.rows = [i \in 1..cnt |-> rows[p * sz + i]]
          /\ query.result.columns = query.table_data.columns
          /\ query.result.total = query.table_data.total
          /\ (p = 0 /\ sz >= n) => query.result.rows = rows
          /\ PagesUpTo(query.table_data, n, sz) = rows

\* the second page of two rows of a table of three rows is its last row, and
\* the stored total, which is not the number of rows, is returned as it is
C23_Witness ==
    /\ query.pc = "done"
    /\ query.table_data.rows = <<7, 8, 9>>
    /\ query.table_data.total = 4
    /\ query.page = 1
    /\ query.page_size = 2
    /\ query.result = [rows |-> <<9>>, columns |-> <<"x">>, total |-> 4]

\* C24: every widget subscription the dashboard channel stores has
\* page >= 0 and page_size > 0, whatever the subscribe messages carried.
C24_StoredViewsInRange ==
    \A k \in DOMAIN connections :
        \A c \in DOMAIN connections[k] :
            \A w \in DOMAIN connections[k][c] :
                connections[k][c][w].page >= 0 /\ connections[k][c][w].page_size > 0

\* a step in which the call of t to sync_schedules ends, the scheduler started
SyncEnds(t) ==
    /\ scheduler = "started"
    /\ sync'[t].pc = "idle"
    /\ sync'[t] # sync[t]

\* the call of t returned, no other call for its key ran meanwhile
ReturnsAlone(t) ==
    /\ SyncEnds(t)
    /\ sync'[t].ret = "returned"
    /\ ~sync'[t].overlap

\* node is a schedule_trigger node that is enabled, by default or explicitly
EnabledTrigger(node) ==
    /\ node.type = "schedule_trigger"
    /\ ("enabled" \in DOMAIN node.config => node.config.enabled)

\* C25: when sync_schedules(k, p) returns, the scheduler started and p without
\* an enabled schedule_trigger node, no job exists for k, neither in the job
\* map nor in the cron library, whatever was registered before
C25_NoJobAfterSync ==
    [][\A t \in Syncers :
          (/\ ReturnsAlone(t)
           /\ \A i \in DOMAIN sync'[t].pipeline.nodes :
                 ~EnabledTrigger(sync'[t].pipeline.nodes[i]))
          => /\ sync'[t].key \notin DOMAIN jobs'
             /\ sync'[t].key \notin DOMAIN cronJobs']_vars

\* node is a schedule_trigger node sync_schedules can register: enabled, with
\* a cron expression of 5 fields
Registrable(node) ==
    /\ EnabledTrigger(node)
    /\ "cron_expression" \in DOMAIN node.config
    /\ Len(node.config.cron_expression) = 5

\* the first schedule_trigger node of the pipeline, 0 when it has none
FirstTrigger(p) ==
    LET ts == {i \in DOMAIN p.nodes : p.nodes[i].type = "schedule_trigger"}
    IN IF ts = {} THEN 0 ELSE CHOOSE i \in ts : \A j \in ts : i <= j

\* the first node of the pipeline that can be registered, 0 when it has none
FirstRegistrable(p) ==
    LET rs == {i \in DOMAIN p.nodes : Registrable(p.nodes[i])}
    IN IF rs = {} THEN 0 ELSE CHOOSE i \in rs : \A j \in rs : i <= j

\* C26 as stated: only the first schedule_trigger node counts; when
\* sync_schedules returns, a job is registered for the key exactly if that
\* first node is enabled and has a parseable cron expression
C26_FirstTriggerOnly ==
    [][\A t \in Syncers :
          ReturnsAlone(t)
          => LET p == sync'[t].pipeline
                 f == FirstTrigger(p)
             IN (sync'[t].key \in DOMAIN jobs') = (f # 0 /\ Registrable(p.nodes[f]))]_vars

\* C26 amended: sync_schedules hands to the cron library the first
\* schedule_trigger node that is enabled and has a parseable cron expression,
\* passing over the ones before it that are not; when it returns, the job map
\* has the key exactly if there is such a node, and, the library having
\* failed in no call and no other call running meanwhile, the library holds
\* the trigger of that node and of no other
C26_FirstRegistrableTrigger ==
    [][\A t \in Syncers :
          /\ sync'[t].pc = "add" => sync'[t].node = FirstRegistrable(sync'[t].pipeline)
          /\ (SyncEnds(t) /\ sync'[t].ret = "returned")
             => LET p == sync'[t].pipeline
                    k == sync'[t].key
                    f == FirstRegistrable(p)
                IN /\ (k \in DOMAIN jobs') = (f # 0)
                   /\ (f # 0 /\ libFaults' = 0 /\ ~sync'[t].overlap)
                      => /\ k \in DOMAIN cronJobs'
                         /\ cronJobs'[k].node = p.nodes[f].id
                         /\ cronJobs'[k].fields = p.nodes[f].config.cron_expression]_vars

\* a call returned after it registered the second schedule_trigger node of a
\* pipeline whose first one cannot be registered
C26_Witness ==
    \E t \in Syncers :
        /\ sync[t].pc = "idle" /\ sync[t].ret = "returned"
        /\ FirstTrigger(sync[t].pipeline) = 1
        /\ sync[t].node = 2
        /\ sync[t].key \in DOMAIN jobs
        /\ sync[t].key \in DOMAIN cronJobs
        /\ cronJobs[sync[t].key].node = "n2"

\* C27: when sync_schedules returns for a pipeline whose only schedule_trigger
\* node has a cron expression of another number of fields than 5, it has not
\* raised and no job is registered for the key: a job registered before the
\* call has been removed
C27_BadFieldCount ==
    [][\A t \in Syncers :
          LET p == sync'[t].pipeline
              f == FirstTrigger(p)
          IN (/\ SyncEnds(t)
              /\ ~sync'[t].overlap
              /\ f # 0
              /\ \A i \in DOMAIN p.nodes : p.nodes[i].type = "schedule_trigger" => i = f
              /\ "cron_expression" \in DOMAIN p.nodes[f].config
              /\ Len(p.nodes[f].config.cron_expression) # 5)
             => /\ sync'[t].ret = "returned"
                /\ sync'[t].key \notin DOMAIN jobs'
                /\ sync'[t].key \notin DOMAIN cronJobs']_vars

\* C28: sync_schedules replaces the job of a key atomically: while a call
\* replaces a job, the key is never without a job, also when calls overlap or
\* the library fails; and the job map and the cron library hold the same keys
\* whenever no call is under way
C28_AtomicReplace ==
    /\ \A t \in Syncers :
          (sync[t].pc = "add" /\ sync[t].hadJob) => sync[t].key \in DOMAIN jobs
    /\ (\A t \in Syncers : sync[t].pc = "idle") => DOMAIN jobs = DOMAIN cronJobs

\* C29: the run history of a key has at most 50 entries, oldest first; every
\* run that ends, with success, with an exception or with the workflow not
\* found, appends one entry of status ok or error (with the text of the
\* error), the oldest entry leaving when there would be more than 50; the
\* histories of the other keys stay, and the callback returns
C29_Step(k, outcome) ==
    LET old == GetRunHistory(k)
        new == runHistory'[k]
        drop == IF Len(old) = MaxHistory THEN 1 ELSE 0
    IN /\ Len(new) = Len(old) + 1 - drop
       /\ \A i \in 1..(Len(new) - 1) : new[i] = old[i + drop]
       /\ new[Len(new)].status = (IF outcome = "ok" THEN "ok" ELSE "error")
       /\ new[Len(new)].status = "error" <=> "error" \in DOMAIN new[Len(new)]
       /\ \A i \in 1..(Len(new) - 1) : new[i].timestamp < new[i + 1].timestamp
       /\ \A j \in Keys \ {k} :
             /\ j \in DOMAIN runHistory' <=> j \in DOMAIN runHistory
             /\ j \in DOMAIN runHistory => runHistory'[j] = runHistory[j]
       /\ jobRet' = "returned"

C29_RunHistory ==
    [][/\ \A k \in DOMAIN runHistory' : Len(runHistory'[k]) <= MaxHistory
       /\ \A k \in Keys, outcome \in RunOutcomes :
             RunPipelineJob(k, outcome) => C29_Step(k, outcome)]_vars

\* a key has had more than 50 runs, one of them failed: its history is full,
\* its oldest runs are gone and the failed one is kept
C29_Witness ==
    /\ Len(GetRunHistory("p/a")) = MaxHistory
    /\ GetRunHistory("p/a")[1].timestamp > 1
    /\ ErrorEntries("p/a") = 1
    /\ Runs("p/b") = 1

\* C30: when the restore loop at startup is over, a streaming start has been
\* attempted for every stored pipeline with published=true and, where it
\* succeeded, the key is registered; the loop has gone through every stored
\* pipeline whatever was raised; pipelines with published=false have not been
\* started nor registered
C30_RestoreAtBoot ==
    [][BootDone =>
          \A k \in Keys :
             IF store[k] = "published"
             THEN \E e \in 1..Len(executors) :
                     /\ executors[e].key = k
                     /\ executors[e].outcome = "started" => RegistryHas(pubRegistry, k)
             ELSE /\ ~RegistryHas(pubRegistry, k)
                  /\ \A e \in 1..Len(executors) : executors[e].key # k]_vars

\* ------------------------------------------------------------------- C31
\* thread t is inside on_tick_complete: tick_env.list() or the connections
\* snapshot of notify_data_changed
InCallback(t) ==
    /\ t \in AllSources
    /\ \/ lockThr[t].pc \in {"env_wait", "env_in"} /\ lockThr[t].next = "list"
       \/ lockThr[t].pc \in {"conn_wait", "conn_in"}

\* the holder of the lock thread t is blocked at, "free" when t is not blocked
BlockedOn(t) ==
    CASE lockThr[t].pc = "exec_wait" -> lock
      [] lockThr[t].pc = "env_wait" -> envLock
      [] lockThr[t].pc = "conn_wait" -> connLock
      [] OTHER -> "free"

\* a set of threads each of which waits for a lock held inside the set
Deadlocked(D) == D # {} /\ \A t \in D : BlockedOn(t) \in D

\* C31: the executor lock is not held by the thread that runs
\* on_tick_complete; a thread that is about to take the executor lock holds
\* neither the TableEnv lock nor the connections lock; and no set of threads
\* (sources, event loop, the caller of stop) waits in a circle.
C31_LockOrder ==
    /\ \A t \in AllSources : InCallback(t) => lock # t
    /\ \A t \in LockThreads :
         lockThr[t].pc = "exec_wait" => envLock # t /\ connLock # t
    /\ \A D \in SUBSET LockThreads : ~Deadlocked(D)

\* one source is in the callback with the connections lock while the other
\* holds the executor lock and waits for the TableEnv lock, held by a fetch
C31_Witness ==
    /\ lockThr["src1"].pc = "conn_in" /\ connLock = "src1"
    /\ lock = "src2" /\ lockThr["src2"].pc = "env_wait"
    /\ envLock = "loop"
    /\ ~running

\* ------------------------------------------------------------------- C35
\* no message is inside _on_message: every tick that began has finished
TicksFinished == \A s \in AllSources : lockThr[s].pc \in {"loop", "done"}

\* C35: the counter that only the processing node writes (read, plus one,
\* written back, once per tick) loses no update: whenever all ticks have
\* finished it equals its value after init, 0, plus the number of ticks in
\* which the node ran, and that is the number of on_tick_complete calls when
\* no node failed and a callback was given.
C35_NoLostUpdate ==
    TicksFinished =>
        /\ envTables["counter"] = 0 + lockHist.writes
        /\ (faults = 0 /\ onTickComplete # "none") =>
               lockHist.callbacks = lockHist.writes

\* both sources delivered all their messages while the executor was running:
\* every one of the interleaved ticks is counted
C35_Witness ==
    /\ \A s \in AllSources : lockThr[s].pc = "done"
    /\ envTables["counter"] = 2 * MaxMsgs
    /\ lockHist.callbacks = 2 * MaxMsgs

\* ------------------------------------------------------------------- C32
IsPrefix(a, b) == Len(a) <= Len(b) /\ \A i \in 1..Len(a) : a[i] = b[i]

IsTerminal(e) == e.type \in {"complete", "error"}

\* the progress events and the terminal events the generator yielded
YieldedProgress == SelectSeq(streamOut, LAMBDA e : ~IsTerminal(e))

YieldedTerminal == SelectSeq(streamOut, IsTerminal)

\* what the stream shows so far is in order: progress events as the executor
\* emitted them, at most one terminal event, which comes last, follows all
\* progress events and tells how run ended; a closed stream has its terminal
\* event; a finished worker has put the sentinel
StreamInOrder ==
    /\ IsPrefix(YieldedProgress, streamLog)
    /\ Len(YieldedTerminal) <= 1
    /\ /\ Len(YieldedTerminal) = 1
       => /\ IsTerminal(streamOut[Len(streamOut)])
          /\ YieldedProgress = streamLog
          /\ YieldedTerminal[1].type = "complete" <=> streamRun.ret = "returned"
          /\ YieldedTerminal[1].type = "error" <=> streamRun.ret = "raised"
    /\ streamRun.gen = "closed" => Len(YieldedTerminal) = 1 /\ eventQueue = << >>
    /\ streamRun.pc = "end" =>
          \/ streamRun.gen = "closed"
          \/ eventQueue # << >> /\ eventQueue[Len(eventQueue)] = Sentinel

\* C32: the stream of a run-stream request carries the node events in the
\* order the executor emitted them, then exactly one terminal event (complete
\* when run returned, error when it raised), then the sentinel, which is put
\* in every case: the generator ends and yields nothing after the terminal
\* event.
C32_StreamOrder ==
    /\ []StreamInOrder
    /\ (streamRun.pc = "run") ~> (streamRun.gen = "closed")
    /\ [][streamRun.gen = "closed" => streamOut' = streamOut]_vars

\* a run whose last node raised: all the node events before the
\* error event, all yielded, and the stream closed
C32_Witness ==
    /\ streamRun.gen = "closed"
    /\ Len(streamLog) = 2 * MaxRunNodes
    /\ streamLog[Len(streamLog)].type = "node_error"
    /\ streamOut = Append(streamLog, StreamEvent("error", "none"))

\* ------------------------------------------------------------------- C33
\* the pipeline the running executor was started with
StartedPipeline == CHOOSE p \in TickPipelines : p.nodes = nodes

\* the nodes that are neither init nodes nor sources, by their declared type
IsProcessing(p, n) ==
    /\ n \in NodeIds(p)
    /\ NodeType(p, n) \notin {"setup_node", "mock_stream"}

\* the edges between processing nodes
ProcessingEdges(p) ==
    {<<p.edges[i].source, p.edges[i].target>> : i \in 1..Len(p.edges)}
       \cap ({n \in NodeIds(p) : IsProcessing(p, n)} \X
             {n \in NodeIds(p) : IsProcessing(p, n)})

\* the processing nodes s has an edge to
DirectOf(p, s) ==
    {n \in NodeIds(p) :
        IsProcessing(p, n) /\ \E i \in 1..Len(p.edges) :
                                 p.edges[i].source = s /\ p.edges[i].target = n}

RECURSIVE Closure(_, _)
\* the least set that holds S and is closed under the edges E
Closure(S, E) ==
    LET T == S \cup {e[2] : e \in {d \in E : d[1] \in S}}
    IN IF T = S THEN S ELSE Closure(T, E)

ReachableFrom(p, s) == Closure(DirectOf(p, s), ProcessingEdges(p))

\* the tick of message m of source s has left the chain loop
TickOver(s, m) ==
    \/ tickState[<<s, m>>] \in {"ok", "ok_callback_raised", "failed"}
    \/ thr[s].pc = "post" /\ thr[s].msg = m

\* C33: in a tick triggered by source s the nodes executed are processing
\* nodes reachable from s (an edge from s to a processing node, then edges
\* between processing nodes), each at most once, every reachable direct
\* predecessor before its successor; when no node failed and the tick is
\* over they are exactly the reachable nodes. Nodes reachable only from
\* another source or from an init node are not executed.
C33_ReachableChain ==
    nodes # << >> =>
      LET p == StartedPipeline
          pe == ProcessingEdges(p)
      IN \A s \in AllSources :
           LET reach == ReachableFrom(p, s)
           IN \A m \in 1..MaxMsgs :
                LET es == TickEntries(s, m)
                IN /\ EntryNodes(es) \subseteq reach
                   /\ \A i, j \in 1..Len(es) : i # j => es[i].node # es[j].node
                   /\ \A i, j \in 1..Len(es) :
                        <<es[i].node, es[j].node>> \in pe => i < j
                   /\ \A j \in 1..Len(es) : \A n \in reach :
                        <<n, es[j].node>> \in pe
                           => \E i \in 1..(j - 1) : es[i].node = n
                   /\ (TickOver(s, m) /\ AllOk(es)) => EntryNodes(es) = reach

\* a tick of src2 ran p3 alone although p1 and p2, reachable from src1 and
\* from the init node only, are upstream of p3; a tick of src1 ran all three
C33_Witness ==
    /\ nodes # << >>
    /\ ReachableFrom(StartedPipeline, "src2") = {"p3"}
    /\ ReachableFrom(StartedPipeline, "src1") = {"p1", "p2", "p3"}
    /\ \E m \in 1..MaxMsgs :
         /\ TickOver("src2", m)
         /\ EntryNodes(TickEntries("src2", m)) = {"p3"}
         /\ AllOk(TickEntries("src2", m))
    /\ \E m \in 1..MaxMsgs :
         /\ TickOver("src1", m)
         /\ Len(TickEntries("src1", m)) = 3
         /\ AllOk(TickEntries("src1", m))

\* ------------------------------------------------------------------- C34
RECURSIVE Overlay(_)
\* the dicts of a list laid over one another, a later one over an earlier one
Overlay(ds) ==
    IF ds = << >> THEN EmptyDict
    ELSE ds[Len(ds)] @@ Overlay(SubSeq(ds, 1, Len(ds) - 1))

\* the direct upstream processing nodes of n, in the order of the edge list
UpstreamOf(p, n) ==
    LET into == SelectSeq(p.edges,
                          LAMBDA e : e.target = n /\ IsProcessing(p, e.source))
    IN [i \in 1..Len(into) |-> into[i].source]

\* what node `up` put out in the tick with entries es before position j
OutputBefore(es, j, up) ==
    IF \E i \in 1..(j - 1) : es[i].node = up /\ es[i].ok
    THEN es[CHOOSE i \in 1..(j - 1) : es[i].node = up /\ es[i].ok].output
    ELSE EmptyDict

\* the inputs the j-th node call of the tick of message m of source s is due
ExpectedInputs(p, s, m, es, j) ==
    LET ups == UpstreamOf(p, es[j].node)
        merged == Overlay([i \in 1..Len(ups) |-> OutputBefore(es, j, ups[i])])
    IN IF es[j].node \in DirectOf(p, s)
       THEN Message(s, m) @@ merged
       ELSE merged

Delivering(s) == thr[s].pc \in {"loop", "check", "acquire", "tick", "post"}

\* the init nodes of the pipeline, by their declared type
InitNodes == {n \in NodeIds(Pipeline) : NodeType(Pipeline, n) = "setup_node"}

\* every init node of the current start() has run and none has failed
InitPhaseDone ==
    /\ ctl.pc # "init"
    /\ ctl.last # "init_failed"
    /\ Len(initLog) = Cardinality(InitNodes)
    /\ SeqToSet(initLog) = InitNodes
    /\ "ticks" \in DOMAIN envTables

\* the processing nodes of the pipeline, their upstream lists and the nodes
\* each source reaches, from the node types and the edge list
ProcessingNodes == {n \in NodeIds(Pipeline) : IsProcessing(Pipeline, n)}

UpstreamLists == [n \in ProcessingNodes |-> UpstreamOf(Pipeline, n)]

ReachedBy == [s \in AllSources |-> ReachableFrom(Pipeline, s)]

\* the chain order, the upstream map and the reachable sets are stored
ChainStored ==
    /\ ctl.pc # "chain"
    /\ Len(chainOrder) = Cardinality(ProcessingNodes)
    /\ SeqToSet(chainOrder) = ProcessingNodes
    /\ \A n \in ProcessingNodes :
         (IF n \in DOMAIN chainUpstream THEN chainUpstream[n] ELSE << >>)
            = UpstreamLists[n]
    /\ sourceReachable = ReachedBy

StartRaised == ctl.pc = "idle" /\ ctl.last \in {"raised_cycle", "raised_source"}

\* C37: whenever start() exits by raising, the executor is left not running
\* and with no source subscribed, so that the next start() is not rejected
\* as already running and no message handler executes a node any more.
C37_RaisedStartLeavesStopped ==
    /\ [](StartRaised => (~running /\ sources = << >>))
    /\ [][StartRaised =>
            /\ ctl'.last # "raised_already_running"
            /\ Len(execLog') <= Len(execLog)]_vars

\* ------------------------------------------------------------------- C38
\* executor e is in the hands of a request in progress: a publish that has
\* started it and not yet registered it, or an unpublish about to stop it
HeldByRequest(e) ==
    \E r \in 1..MaxWorkers : req[r].ex = e /\ req[r].pc \in {"register", "stop"}

\* the registry entry of the key of executor e refers to e
Registered(e) == RegistryGet(pubRegistry, executors[e].key).executor = e

\* C38: under concurrent publish requests for one key at most one executor
\* of the key is started and not stopped: an executor with subscribed
\* sources is the one its key's registry entry refers to (or is still in the
\* hands of the request that started or unregistered it), and a publish
\* succeeds only for a key that is not registered, so that one of the
\* concurrent requests succeeds and the others do not.
C38_OneExecutorPerKey ==
    /\ [](\A e \in 1..Len(executors) :
            executors[e].subscribed => (Registered(e) \/ HeldByRequest(e)))
    /\ [][\A r \in 1..MaxWorkers :
            (req[r].pc = "register" /\ req'[r].pc = "free")
               => ~RegistryHas(pubRegistry, req[r].key)]_vars

\* ------------------------------------------------------------------- C39
\* the application serves and no publish or unpublish request is in progress
NoRequestInProgress == boot.serving /\ \A r \in 1..MaxWorkers : req[r].pc = "free"

\* C39: whenever no publish or unpublish request is in progress, a key is in
\* the publish registry exactly when its stored pipeline has published =
\* true; also after a publish whose executor.start raised and after any
\* interleaving of concurrent publish and unpublish requests for the key.
C39_RegistryMatchesStore ==
    NoRequestInProgress =>
        \A k \in Keys : RegistryHas(pubRegistry, k) <=> store[k] = "published"

\* ------------------------------------------------------------------- C40
\* stop() has returned and nothing has been called on the executor since
StopReturned == ctl.pc = "idle" /\ ctl.last = "stopped"

\* a node call or an on_tick_complete call of the tick of message m of
\* source s is made in this step
TickActs(s, m) ==
    \/ Len(SelectSeq(execLog', LAMBDA e : e.src = s /\ e.msg = m))
          > Len(TickEntries(s, m))
    \/ cbCount'[<<s, m>>] > cbCount[<<s, m>>]

\* C40 as stated: once stop() has returned, no processing node begins to
\* execute and on_tick_complete is not invoked, a thread that had passed its
\* running check before stop() was called included.
C40_QuietAfterStop ==
    [][StopReturned => \A s \in AllSources : \A m \in 1..MaxMsgs : ~TickActs(s, m)]_vars

C40_Step ==
    \A s \in AllSources :
       /\ (thr[s].pc = "check" /\ ~running /\ thr'[s] # thr[s])
            => (thr'[s].pc = "loop" /\ tickState'[Tid(s)] = "dropped")
       /\ \A m \in 1..MaxMsgs :
            TickActs(s, m) => (tickState[<<s, m>>] = "running" /\ thr[s].msg = m)

\* C40, amended: a message whose running check comes after stop() cleared
\* the flag is dropped: no processing node runs and on_tick_complete is not
\* invoked for it, under any interleaving with the source threads. Node
\* calls and callbacks belong to ticks that passed the check with the flag
\* set; such a tick runs on, also after stop() has returned.
C40_DroppedAfterStop ==
    /\ [](\A s \in AllSources : \A m \in 1..MaxMsgs :
            tickState[<<s, m>>] = "dropped"
               => (TickEntries(s, m) = << >> /\ cbCount[<<s, m>>] = 0))
    /\ [][C40_Step]_vars

\* stop() has returned while a thread that passed the running check has not
\* yet entered the "with" block: its nodes and its callback are still to come;
\* the other source had a message dropped
C40_Witness ==
    /\ StopReturned
    /\ thr["src1"].pc = "acquire"
    /\ onTickComplete # "none"
    /\ \E m \in 1..MaxMsgs : tickState[<<"src2", m>>] = "dropped"

====
